---- MODULE Spec2Model ----
(***************************************************************************)
(* LifeTrack Pro: the reminder scheduler (lifetrack_pro/jobs.py), the      *)
(* settings record it is derived from (lifetrack_pro/db.py, table users)   *)
(* and the front-end handlers that store settings and reconcile the armed  *)
(* triggers (lifetrack_pro/handlers.py: start, handle_callback,            *)
(* handle_text).                                                           *)
(***************************************************************************)
EXTENDS Integers, Sequences, FiniteSets, TLC

VARIABLES
    users,            \* table users: user_id -> settings row (db.py:9-16)
    allowed_user_id,  \* bot_data["allowed_user_id"], None when not configured
    awaiting,         \* user_data["awaiting_input"] of each chat, where present
    bot_water,        \* bot_data["water_reminder_<chat>"]: list of job handles
    bot_summary,      \* bot_data["daily_summary_<chat>"]: one job handle
    job_queue,        \* the jobs armed in app.job_queue: handle -> job
    cancel_failures,  \* how many schedule_removal() calls have raised so far
    io_failures,      \* how many database / transport / run_daily calls have raised
    result,           \* what the last handler run did and how it ended
    tasks,            \* the handler runs / database calls begun, each with its position
    sent,             \* the last message a job callback sent
    water_logs,       \* table water_logs (db.py:18-24): row -> how many such rows
    exercise_logs,    \* table exercise_logs (db.py:26-33): its rows, id left out
    retention_logs,   \* table retention_logs (db.py:35-42): its rows, id left out
    sleep_logs,       \* table sleep_logs (db.py:53-60): its rows in id order
    activities,       \* table activities (db.py:44-51): its rows in id order
    screen_time_logs, \* table screen_time_logs (db.py:62-68): its rows in id order
    answer            \* the last event-store call of a handler and what it gave

\* the event tables
event_tables ==
    <<water_logs, exercise_logs, retention_logs, activities, sleep_logs,
      screen_time_logs>>

\* the event tables and the last query result
store == <<event_tables, answer>>

vars == <<users, allowed_user_id, awaiting, bot_water, bot_summary, job_queue,
          cancel_failures, io_failures, result, tasks, sent, store>>

----------------------------------------------------------------------------
(* Bounds of the model *)

\* at most this many schedule_removal() calls raise in one behaviour
MaxCancelFail == 1
\* at most this many database / transport / run_daily calls raise in one behaviour
MaxIoFail == 1
\* settings that would arm more water reminders than this are not entered
MaxReminders == 16
\* the persisted wake / sleep times tried divide the day into GridCells + 1
\* equal parts; the edges of the day and the times of the scenarios are added
GridCells == 4

----------------------------------------------------------------------------
(* Program constants *)

None == -1                     \* Python's None for an unset integer column
MinutesPerDay == 1440          \* 24*60
DefaultSummaryMinutes == 1260  \* 21*60
DefaultTargetMl == 4000
DefaultCupMl == 250

UserIds == {1, 2}

Max(a, b) == IF a >= b THEN a ELSE b

----------------------------------------------------------------------------
(* utils.py *)

\* minutes_to_time, were the hour not reduced modulo 24
minutes_to_time_nowrap(minutes_after_midnight) ==
    <<minutes_after_midnight \div 60, minutes_after_midnight % 60>>

\* minutes_to_time: datetime.time(hour, minute) as the pair <<hour, minute>>
minutes_to_time(minutes_after_midnight) ==
    <<(minutes_after_midnight \div 60) % 24, minutes_after_midnight % 60>>

\* the zone names pytz resolves, among the names the model enters
UTC == <<"U", "T", "C">>
KnownZones == {UTC, <<"A", "s", "i", "a", "/", "T", "o", "k", "y", "o">>}

\* get_tz, were the name taken for a zone without the lookup
get_tz_raw(tz_name) == tz_name

\* get_tz: pytz.timezone(name), or pytz.UTC when the lookup raises
get_tz(tz_name) == IF tz_name \in KnownZones THEN tz_name ELSE UTC

Digits == {"0", "1", "2", "3", "4", "5", "6", "7", "8", "9"}

DigitVal(c) ==
    CASE c = "0" -> 0 [] c = "1" -> 1 [] c = "2" -> 2 [] c = "3" -> 3
      [] c = "4" -> 4 [] c = "5" -> 5 [] c = "6" -> 6 [] c = "7" -> 7
      [] c = "8" -> 8 [] c = "9" -> 9

RECURSIVE DecimalVal(_)
\* int() of a non-empty run of digits
DecimalVal(s) ==
    IF Len(s) = 0 THEN 0
    ELSE 10 * DecimalVal(SubSeq(s, 1, Len(s) - 1)) + DigitVal(s[Len(s)])

AllDigits(s) == Len(s) > 0 /\ \A i \in 1..Len(s) : s[i] \in Digits

RECURSIVE LStrip(_)
LStrip(s) == IF Len(s) > 0 /\ s[1] = " " THEN LStrip(Tail(s)) ELSE s

RECURSIVE RStrip(_)
RStrip(s) ==
    IF Len(s) > 0 /\ s[Len(s)] = " " THEN RStrip(SubSeq(s, 1, Len(s) - 1)) ELSE s

\* str.strip()
Strip(s) == RStrip(LStrip(s))

\* parse_time_hhmm: minutes after midnight, or None
parse_time_hhmm(text) ==
    LET t == Strip(text)
        n == Len(t)
    IN  IF /\ n \in {4, 5}
           /\ t[n - 2] = ":"
           /\ AllDigits(SubSeq(t, 1, n - 3))
           /\ AllDigits(SubSeq(t, n - 1, n))
        THEN LET h  == DecimalVal(SubSeq(t, 1, n - 3))
                 mi == DecimalVal(SubSeq(t, n - 1, n))
             IN  IF h < 0 \/ h > 23 \/ mi < 0 \/ mi > 59 THEN None
                 ELSE h * 60 + mi
        ELSE None

\* int(text): [ok |-> FALSE] stands for ValueError
ParseInt(text) ==
    LET t == Strip(text)
        signed == Len(t) > 0 /\ t[1] \in {"-", "+"}
        body == IF signed THEN Tail(t) ELSE t
    IN  IF AllDigits(body)
        THEN [ok |-> TRUE,
              val |-> IF signed /\ t[1] = "-" THEN 0 - DecimalVal(body)
                      ELSE DecimalVal(body)]
        ELSE [ok |-> FALSE, val |-> 0]

----------------------------------------------------------------------------
(* datetime as utils.py and db.py use it.  An instant is a whole number of
   ticks after 2024-01-01T00:00:00 UTC; the model stays within January 2024,
   so a date is its day of the month. *)

\* ticks in a second: datetime.now() is read to the half second
TicksPerSecond == 2

TicksPerMinute == 60 * TicksPerSecond

TicksPerDay == MinutesPerDay * TicksPerMinute

\* the instant of a clock reading on a day of the month
At(day, hour, minute, second, tick) ==
    (day - 1) * TicksPerDay + (hour * 60 + minute) * TicksPerMinute
        + second * TicksPerSecond + tick

DigitChar(d) == CHOOSE c \in Digits : DigitVal(c) = d

\* f"{n:02d}"
Pad2(n) == <<DigitChar((n \div 10) % 10), DigitChar(n % 10)>>

RECURSIVE PadN(_, _)
\* n in `width` digits, leading zeros kept
PadN(n, width) ==
    IF width = 0 THEN <<>>
    ELSE PadN(n \div 10, width - 1) \o <<DigitChar(n % 10)>>

YearMonth == <<"2", "0", "2", "4", "-", "0", "1", "-">>

\* date.isoformat()
date_isoformat(day) == YearMonth \o Pad2(day)

\* datetime.isoformat() of an aware UTC datetime: the fraction is written
\* only when the microseconds are not 0
isoformat(t) ==
    LET day == t \div TicksPerDay + 1
        second == (t % TicksPerDay) \div TicksPerSecond
        micro == ((t % TicksPerSecond) * 1000000) \div TicksPerSecond
    IN  date_isoformat(day) \o <<"T">> \o Pad2(second \div 3600)
            \o <<":">> \o Pad2((second \div 60) % 60)
            \o <<":">> \o Pad2(second % 60)
            \o (IF micro = 0 THEN <<>> ELSE <<".">> \o PadN(micro, 6))
            \o <<"+", "0", "0", ":", "0", "0">>

\* datetime.fromisoformat(date_str + 'T00:00:00'): naive midnight of the date
date_fromisoformat(date_str) ==
    (DecimalVal(SubSeq(date_str, 9, 10)) - 1) * TicksPerDay

\* datetime.fromisoformat of a text isoformat wrote
fromisoformat(text) ==
    LET micro == IF text[20] = "." THEN DecimalVal(SubSeq(text, 21, 26)) ELSE 0
    IN  At(DecimalVal(SubSeq(text, 9, 10)), DecimalVal(SubSeq(text, 12, 13)),
           DecimalVal(SubSeq(text, 15, 16)), DecimalVal(SubSeq(text, 18, 19)),
           (micro * TicksPerSecond) \div 1000000)

\* ord() of the characters an ISO text is made of
CharCode(c) ==
    CASE c = "+" -> 43 [] c = "-" -> 45 [] c = "." -> 46 [] c = ":" -> 58
      [] c = "T" -> 84 [] OTHER -> 48 + DigitVal(c)

RECURSIVE TextLess(_, _)
\* a < b as SQLite compares two TEXT values (BINARY collation: byte by byte,
\* a proper prefix first)
TextLess(a, b) ==
    IF Len(b) = 0 THEN FALSE
    ELSE IF Len(a) = 0 THEN TRUE
    ELSE IF a[1] # b[1] THEN CharCode(a[1]) < CharCode(b[1])
    ELSE TextLess(Tail(a), Tail(b))

\* tz.utcoffset(...) in minutes for the zones of the model (neither has
\* daylight saving time)
utcoffset(tzinfo) == IF tzinfo = UTC THEN 0 ELSE 540

\* tz_offset_minutes(tz_name)
tz_offset_minutes(tz_name) == utcoffset(get_tz(tz_name))

\* local_date_str(tz_name, dt_utc), dt_utc the reading of now_utc()
local_date_str(tz_name, dt_utc) ==
    date_isoformat((dt_utc + utcoffset(get_tz(tz_name)) * TicksPerMinute)
                       \div TicksPerDay + 1)

----------------------------------------------------------------------------
(* jobs.py: the derivation of the water trigger times *)

\* total_minutes, were the window to wrap past midnight to the sleep time
total_minutes_wrap(wake_minutes, sleep_minutes) ==
    IF sleep_minutes <= wake_minutes
    THEN MinutesPerDay - wake_minutes + sleep_minutes
    ELSE sleep_minutes - wake_minutes

\* jobs.py:33-37
total_minutes(wake_minutes, sleep_minutes) ==
    IF sleep_minutes <= wake_minutes THEN MinutesPerDay - wake_minutes
    ELSE sleep_minutes - wake_minutes

\* reminders, were the quotient rounded up
reminders_ceil(target_ml, cup_size_ml) ==
    Max(1, (target_ml + Max(1, cup_size_ml) - 1) \div Max(1, cup_size_ml))

\* jobs.py:39
reminders(target_ml, cup_size_ml) == Max(1, target_ml \div Max(1, cup_size_ml))

\* interval, were its floor two minutes
interval_two(wake_minutes, sleep_minutes, target_ml, cup_size_ml) ==
    Max(2, total_minutes(wake_minutes, sleep_minutes)
               \div reminders(target_ml, cup_size_ml))

\* interval, were the quotient rounded up
interval_ceil(wake_minutes, sleep_minutes, target_ml, cup_size_ml) ==
    Max(1, (total_minutes(wake_minutes, sleep_minutes)
              + reminders(target_ml, cup_size_ml) - 1)
               \div reminders(target_ml, cup_size_ml))

\* interval, without the floor of one minute
interval_nomax(wake_minutes, sleep_minutes, target_ml, cup_size_ml) ==
    total_minutes(wake_minutes, sleep_minutes)
        \div reminders(target_ml, cup_size_ml)

\* jobs.py:40
interval(wake_minutes, sleep_minutes, target_ml, cup_size_ml) ==
    Max(1, total_minutes(wake_minutes, sleep_minutes)
               \div reminders(target_ml, cup_size_ml))

\* water_times, were the first reminder placed at the wake time itself
water_times_from_wake(wake_minutes, sleep_minutes, target_ml, cup_size_ml) ==
    [i \in 1..reminders(target_ml, cup_size_ml) |->
        minutes_to_time(
            (wake_minutes
               + (i - 1) * interval(wake_minutes, sleep_minutes, target_ml, cup_size_ml))
            % MinutesPerDay)]

\* jobs.py:42-47: the list times; entry idx + 1 is the time of job idx
water_times(wake_minutes, sleep_minutes, target_ml, cup_size_ml) ==
    [i \in 1..reminders(target_ml, cup_size_ml) |->
        minutes_to_time(
            (wake_minutes
               + i * interval(wake_minutes, sleep_minutes, target_ml, cup_size_ml))
            % MinutesPerDay)]

\* jobs.py:73
summary_time(sleep_minutes) ==
    minutes_to_time(IF sleep_minutes # None THEN sleep_minutes
                    ELSE DefaultSummaryMinutes)

----------------------------------------------------------------------------
(* jobs.py: the job queue and the registry kept in bot_data *)

Range(f) == {f[x] : x \in DOMAIN f}

\* dict.pop(key, default): the dict without the key
Pop(d, k) == [x \in DOMAIN d \ {k} |-> d[x]]

\* d[k] = v
Put(d, k, v) == [x \in DOMAIN d \cup {k} |-> IF x = k THEN v ELSE d[x]]

\* the n smallest handles from k on that are not in use: the i-th of them
\* is the handle not in use with i - 1 handles not in use between k and it
FreshFrom(k, used, n) ==
    [i \in 1..n |->
        CHOOSE h \in (k + i - 1)..(k + i - 1 + Cardinality(used)) :
            /\ h \notin used
            /\ (h - k) - Cardinality({x \in used : x >= k /\ x < h}) = i - 1]

\* A Job object is a reference: run_daily returns one that no armed job and no
\* registry entry holds (`held`).  The handle of a job that was removed and
\* popped from the registry is unreachable, and may be handed out again.
NewHandles(held, n) == FreshFrom(1, held, n)

\* the handles the program holds or the queue has armed
Held(bw, bs, q) ==
    DOMAIN q \cup Range(bs) \cup UNION {Range(bw[c]) : c \in DOMAIN bw}

\* Remove, were no job taken out of the queue
Remove_none(q, handles, failed) == q

\* Remove, were the first schedule_removal() that raises to end the loop
Remove_abort(q, handles, failed) ==
    IF failed = {} THEN [h \in DOMAIN q \ handles |-> q[h]] ELSE q

\* Job.schedule_removal() on each of `handles`; a call that raises (`failed`)
\* leaves its job in the queue
Remove(q, handles, failed) == [h \in DOMAIN q \ (handles \ failed) |-> q[h]]

\* jobs.py:51-58: the job run_daily arms for water reminder idx
WaterJob(chat_id, idx, t, cup_size_ml, tzinfo) ==
    [callback |-> "send_water_reminder", chat_id |-> chat_id, idx |-> idx,
     time |-> t, cup_size_ml |-> cup_size_ml, tzinfo |-> tzinfo]

\* jobs.py:74-80: the job run_daily arms for the daily summary
SummaryJob(chat_id, t, tzinfo) ==
    [callback |-> "send_daily_summary", chat_id |-> chat_id, idx |-> None,
     time |-> t, cup_size_ml |-> None, tzinfo |-> tzinfo]

\* schedule_water_reminders, without the return on an unset wake or sleep time
schedule_water_reminders_noguard(bw, bs, q, chat_id, wake_minutes, sleep_minutes, target_ml, cup_size_ml, tzinfo, failed) ==
    LET existing_jobs == IF chat_id \in DOMAIN bw THEN bw[chat_id] ELSE <<>>
        popped == Pop(bw, chat_id)
        q1 == Remove(q, Range(existing_jobs), failed)
        times == water_times(wake_minutes, sleep_minutes, target_ml, cup_size_ml)
        new_jobs == NewHandles(Held(popped, bs, q1), Len(times))
    IN  [bw |-> Put(popped, chat_id, new_jobs),
         q  |-> [h \in DOMAIN q1 \cup Range(new_jobs) |->
                   IF h \in Range(new_jobs)
                   THEN LET i == CHOOSE j \in 1..Len(new_jobs) : new_jobs[j] = h
                        IN  WaterJob(chat_id, i - 1, times[i], cup_size_ml, tzinfo)
                   ELSE q1[h]]]

\* schedule_water_reminders, were the new jobs added to the ones already armed
schedule_water_reminders_append(bw, bs, q, chat_id, wake_minutes, sleep_minutes, target_ml, cup_size_ml, tzinfo, failed) ==
    LET existing_jobs == IF chat_id \in DOMAIN bw THEN bw[chat_id] ELSE <<>>
    IN  IF wake_minutes = None \/ sleep_minutes = None
        THEN [bw |-> bw, q |-> q]
        ELSE LET times == water_times(wake_minutes, sleep_minutes,
                                      target_ml, cup_size_ml)
                 new_jobs == NewHandles(Held(bw, bs, q), Len(times))
             IN  [bw |-> Put(bw, chat_id, existing_jobs \o new_jobs),
                  q  |-> [h \in DOMAIN q \cup Range(new_jobs) |->
                            IF h \in Range(new_jobs)
                            THEN LET i == CHOOSE j \in 1..Len(new_jobs) :
                                              new_jobs[j] = h
                                 IN  WaterJob(chat_id, i - 1, times[i],
                                              cup_size_ml, tzinfo)
                            ELSE q[h]]]

\* schedule_water_reminders, on the registry bw and the queue q; `failed` are
\* the old handles whose schedule_removal() raises.  Yields the new bw and q.
schedule_water_reminders(bw, bs, q, chat_id, wake_minutes, sleep_minutes, target_ml, cup_size_ml, tzinfo, failed) ==
    LET existing_jobs == IF chat_id \in DOMAIN bw THEN bw[chat_id] ELSE <<>>
        popped == Pop(bw, chat_id)
        q1 == Remove(q, Range(existing_jobs), failed)
    IN  IF wake_minutes = None \/ sleep_minutes = None
        THEN [bw |-> popped, q |-> q1]
        ELSE LET times == water_times(wake_minutes, sleep_minutes,
                                      target_ml, cup_size_ml)
                 new_jobs == NewHandles(Held(popped, bs, q1), Len(times))
             IN  [bw |-> Put(popped, chat_id, new_jobs),
                  q  |-> [h \in DOMAIN q1 \cup Range(new_jobs) |->
                            IF h \in Range(new_jobs)
                            THEN LET i == CHOOSE j \in 1..Len(new_jobs) :
                                              new_jobs[j] = h
                                 IN  WaterJob(chat_id, i - 1, times[i],
                                              cup_size_ml, tzinfo)
                            ELSE q1[h]]]

\* reschedule_daily_summary, were the stored job not removed before the new
\* one is armed
reschedule_daily_summary_keep(bw, bs, q, chat_id, sleep_minutes, tzinfo, failed) ==
    LET job == NewHandles(Held(bw, bs, q), 1)[1]
    IN  [bs |-> Put(Pop(bs, chat_id), chat_id, job),
         q  |-> [h \in DOMAIN q \cup {job} |->
                   IF h = job
                   THEN SummaryJob(chat_id, summary_time(sleep_minutes), tzinfo)
                   ELSE q[h]]]

\* reschedule_daily_summary, on the registry bs and the queue q; `failed` holds
\* the old handle when its schedule_removal() raises.  Yields the new bs and q.
reschedule_daily_summary(bw, bs, q, chat_id, sleep_minutes, tzinfo, failed) ==
    LET existing == IF chat_id \in DOMAIN bs THEN {bs[chat_id]} ELSE {}
        q1 == Remove(q, existing, failed)
        job == NewHandles(Held(bw, Pop(bs, chat_id), q1), 1)[1]
    IN  [bs |-> Put(Pop(bs, chat_id), chat_id, job),
         q  |-> [h \in DOMAIN q1 \cup {job} |->
                   IF h = job
                   THEN SummaryJob(chat_id, summary_time(sleep_minutes), tzinfo)
                   ELSE q1[h]]]

\* schedule_water_reminders when the run_daily call of reminder `raises`
\* (counted from 0) raises: the reminders before it are armed, the exception
\* leaves the function before the registry entry is written
schedule_water_reminders_raises(bw, bs, q, chat_id, wake_minutes, sleep_minutes, target_ml, cup_size_ml, tzinfo, failed, raises) ==
    LET r == schedule_water_reminders(bw, bs, q, chat_id, wake_minutes,
                 sleep_minutes, target_ml, cup_size_ml, tzinfo, failed)
        new_jobs == r.bw[chat_id]
        unarmed == {new_jobs[i] : i \in (raises + 1)..Len(new_jobs)}
    IN  [bw |-> Pop(r.bw, chat_id),
         q  |-> [h \in DOMAIN r.q \ unarmed |-> r.q[h]]]

\* reschedule_daily_summary when its run_daily call raises: the stored job
\* was popped and removed, no new one is armed or stored
reschedule_daily_summary_raises(bw, bs, q, chat_id, failed) ==
    LET existing == IF chat_id \in DOMAIN bs THEN {bs[chat_id]} ELSE {}
    IN  [bs |-> Pop(bs, chat_id), q |-> Remove(q, existing, failed)]

----------------------------------------------------------------------------
(* db.py: the users table *)

EmptyMap == [x \in {} |-> 0]

\* db.py:9-16: the row INSERT INTO users(user_id, tz) creates
DefaultRow ==
    [daily_water_target_ml |-> DefaultTargetMl, cup_size_ml |-> DefaultCupMl,
     wake_time_minutes |-> None, sleep_time_minutes |-> None, tz |-> UTC]

\* upsert_user, were the statement INSERT OR REPLACE INTO users(user_id, tz)
upsert_user_replace(tbl, user_id) == Put(tbl, user_id, DefaultRow)

\* upsert_user: INSERT ... ON CONFLICT(user_id) DO NOTHING
upsert_user(tbl, user_id) ==
    IF user_id \in DOMAIN tbl THEN tbl ELSE Put(tbl, user_id, DefaultRow)

\* update_user_settings(user_id, <column>=value): UPDATE users SET ... WHERE user_id=?
update_user_settings(tbl, user_id, column, value) ==
    [x \in DOMAIN tbl |->
        IF x = user_id THEN [tbl[x] EXCEPT ![column] = value] ELSE tbl[x]]

\* update_user_settings, were the dates of the user's exercise rows derived
\* anew from their instants under the zone now stored
update_user_settings_events_rederive(tbls, utbl, user_id) ==
    [tbls EXCEPT ![2] =
        {IF row.user_id = user_id
         THEN [row EXCEPT !.date = local_date_str(utbl[user_id].tz,
                                       fromisoformat(row.ts_utc))]
         ELSE row : row \in tbls[2]}]

\* the event tables (tbls, in the order of event_tables) after
\* update_user_settings: its one statement is UPDATE users, which writes no
\* other table
update_user_settings_events(tbls, utbl, user_id) == tbls

----------------------------------------------------------------------------
(* db.py: the boolean-day tables exercise_logs and retention_logs *)

\* the rows of a table with this (user_id, date)
RowsOf(tbl, user_id, date_str) ==
    {row \in tbl : row.user_id = user_id /\ row.date = date_str}

\* set_exercise, were the row inserted without ON CONFLICT ... DO UPDATE on a
\* table without UNIQUE(user_id, date)
set_exercise_insert(tbl, user_id, date_str, did_exercise, ts_utc) ==
    tbl \cup {[user_id |-> user_id, date |-> date_str,
                did_exercise |-> IF did_exercise THEN 1 ELSE 0,
                ts_utc |-> isoformat(ts_utc)]}

\* set_exercise, were the statement DO UPDATE SET did_exercise only
set_exercise_keep_ts(tbl, user_id, date_str, did_exercise, ts_utc) ==
    LET did == IF did_exercise THEN 1 ELSE 0
        hit == RowsOf(tbl, user_id, date_str)
    IN  IF hit = {}
        THEN tbl \cup {[user_id |-> user_id, date |-> date_str,
                         did_exercise |-> did, ts_utc |-> isoformat(ts_utc)]}
        ELSE (tbl \ hit) \cup {[row EXCEPT !.did_exercise = did] : row \in hit}

\* set_exercise: INSERT ... ON CONFLICT(user_id, date) DO UPDATE SET
\* did_exercise, ts_utc
set_exercise(tbl, user_id, date_str, did_exercise, ts_utc) ==
    LET did == IF did_exercise THEN 1 ELSE 0
        hit == RowsOf(tbl, user_id, date_str)
    IN  IF hit = {}
        THEN tbl \cup {[user_id |-> user_id, date |-> date_str,
                         did_exercise |-> did, ts_utc |-> isoformat(ts_utc)]}
        ELSE (tbl \ hit) \cup
                 {[row EXCEPT !.did_exercise = did,
                              !.ts_utc = isoformat(ts_utc)] : row \in hit}

\* set_retention: the same statement on retention_logs / did_retain
set_retention(tbl, user_id, date_str, did_retain, ts_utc) ==
    LET did == IF did_retain THEN 1 ELSE 0
        hit == RowsOf(tbl, user_id, date_str)
    IN  IF hit = {}
        THEN tbl \cup {[user_id |-> user_id, date |-> date_str,
                         did_retain |-> did, ts_utc |-> isoformat(ts_utc)]}
        ELSE (tbl \ hit) \cup
                 {[row EXCEPT !.did_retain = did,
                              !.ts_utc = isoformat(ts_utc)] : row \in hit}

RECURSIVE boolean_streak_from(_, _, _, _, _)
\* db.py:290-302: the loop of compute_boolean_streak with `current` at
\* midnight of the day looked up
boolean_streak_from(tbl, user_id, column, expect_value, current) ==
    LET date_str == date_isoformat(current \div TicksPerDay + 1)
        rows == RowsOf(tbl, user_id, date_str)
    IN  IF rows # {} /\ (CHOOSE row \in rows : TRUE)[column] = expect_value
        THEN 1 + boolean_streak_from(tbl, user_id, column, expect_value,
                                     current - TicksPerDay)
        ELSE 0

\* compute_boolean_streak, were the day of today_date not looked up
compute_boolean_streak_skip(tbl, user_id, column, expect_value, today_date) ==
    boolean_streak_from(tbl, user_id, column, expect_value,
                        date_fromisoformat(today_date) - TicksPerDay)

\* compute_boolean_streak(user_id, table, column, expect_value, today_date)
compute_boolean_streak(tbl, user_id, column, expect_value, today_date) ==
    boolean_streak_from(tbl, user_id, column, expect_value,
                        date_fromisoformat(today_date))

----------------------------------------------------------------------------
(* db.py: table water_logs *)

\* add_water: INSERT INTO water_logs(user_id, amount_ml, ts_utc)
add_water(tbl, user_id, amount_ml, ts_utc) ==
    LET row == [user_id |-> user_id, amount_ml |-> amount_ml,
                ts_utc |-> isoformat(ts_utc)]
    IN  Put(tbl, row, IF row \in DOMAIN tbl THEN tbl[row] + 1 ELSE 1)

RECURSIVE SumAmounts(_, _)
\* SUM(amount_ml) over the selected rows
SumAmounts(tbl, rows) ==
    IF rows = {} THEN 0
    ELSE LET row == CHOOSE r \in rows : TRUE
         IN  row.amount_ml * tbl[row] + SumAmounts(tbl, rows \ {row})

\* get_water_total_for_date, were the upper bound of the range included
get_water_total_for_date_closed(tbl, user_id, date_str_local, tz_off) ==
    LET from_dt == date_fromisoformat(date_str_local) - tz_off * TicksPerMinute
        to_dt == from_dt + TicksPerDay
    IN  SumAmounts(tbl, {row \in DOMAIN tbl :
            /\ row.user_id = user_id
            /\ ~TextLess(row.ts_utc, isoformat(from_dt))
            /\ ~TextLess(isoformat(to_dt), row.ts_utc)})

\* get_water_total_for_date(user_id, date_str_local, tz_offset_minutes).
\* A from_dt on December 31 is written with day 00, which sorts before every
\* text of January as the text of December 31 does.
get_water_total_for_date(tbl, user_id, date_str_local, tz_off) ==
    LET from_dt == date_fromisoformat(date_str_local) - tz_off * TicksPerMinute
        to_dt == from_dt + TicksPerDay
    IN  SumAmounts(tbl, {row \in DOMAIN tbl :
            /\ row.user_id = user_id
            /\ ~TextLess(row.ts_utc, isoformat(from_dt))
            /\ TextLess(row.ts_utc, isoformat(to_dt))})

RECURSIVE water_streak_from(_, _, _, _, _)
\* db.py:309-321: the loop of get_water_completion_streak with `current` at
\* midnight of the day judged.  No event lies before January and the zones
\* are not west of UTC, so a day before January 1 totals 0: the loop stops
\* there when the target is positive, and otherwise runs on to the first
\* date datetime can hold, where timedelta arithmetic raises OverflowError
\* (None: no count is returned).
water_streak_from(utbl, tbl, user_id, tz_off, current) ==
    LET target_ml == IF user_id \in DOMAIN utbl
                     THEN utbl[user_id].daily_water_target_ml
                     ELSE DefaultTargetMl
    IN  IF current < 0
        THEN IF 0 >= target_ml THEN None ELSE 0
        ELSE IF get_water_total_for_date(tbl, user_id,
                    date_isoformat(current \div TicksPerDay + 1), tz_off)
                  >= target_ml
        THEN LET rest == water_streak_from(utbl, tbl, user_id, tz_off,
                                           current - TicksPerDay)
             IN  IF rest = None THEN None ELSE 1 + rest
        ELSE 0

\* get_water_completion_streak, were a day counted only above the target
get_water_completion_streak_above(utbl, tbl, user_id, tz_off, today_local_date) ==
    water_streak_from([u \in DOMAIN utbl |->
                          [utbl[u] EXCEPT !.daily_water_target_ml = @ + 1]],
                      tbl, user_id, tz_off, date_fromisoformat(today_local_date))

\* get_water_completion_streak(user_id, tz_offset_minutes, today_local_date)
get_water_completion_streak(utbl, tbl, user_id, tz_off, today_local_date) ==
    water_streak_from(utbl, tbl, user_id, tz_off,
                      date_fromisoformat(today_local_date))

----------------------------------------------------------------------------
(* db.py: table sleep_logs; the id of a row is its place in the sequence *)

\* NULL in a TEXT column
Null == <<>>

\* log_sleep_start: INSERT INTO sleep_logs(user_id, date, sleep_start_utc)
log_sleep_start(tbl, user_id, date_str, ts_utc) ==
    Append(tbl, [user_id |-> user_id, date |-> date_str,
                 sleep_start_utc |-> isoformat(ts_utc), wake_utc |-> Null,
                 duration_minutes |-> None])

\* SELECT id ... WHERE user_id=? AND wake_utc IS NULL
OpenIds(tbl, user_id) ==
    {id \in DOMAIN tbl : tbl[id].user_id = user_id /\ tbl[id].wake_utc = Null}

\* log_wake, were the latest row of the user selected without the condition
\* wake_utc IS NULL
log_wake_any(tbl, user_id, date_str, ts_utc) ==
    LET mine == {id \in DOMAIN tbl : tbl[id].user_id = user_id}
    IN  IF mine # {}
        THEN LET sleep_id == CHOOSE id \in mine : \A other \in mine : other <= id
                 start_iso == tbl[sleep_id].sleep_start_utc
                 start_dt == IF start_iso = Null THEN ts_utc
                             ELSE fromisoformat(start_iso)
                 duration == Max(0, (ts_utc - start_dt) \div TicksPerMinute)
             IN  [tbl EXCEPT ![sleep_id] =
                     [@ EXCEPT !.wake_utc = isoformat(ts_utc),
                               !.duration_minutes = duration,
                               !.date = date_str]]
        ELSE Append(tbl, [user_id |-> user_id, date |-> date_str,
                          sleep_start_utc |-> Null,
                          wake_utc |-> isoformat(ts_utc),
                          duration_minutes |-> None])

\* log_wake, were the duration stored without max(0, ...)
log_wake_signed(tbl, user_id, date_str, ts_utc) ==
    IF OpenIds(tbl, user_id) # {}
    THEN LET sleep_id == CHOOSE id \in OpenIds(tbl, user_id) :
                             \A other \in OpenIds(tbl, user_id) : other <= id
             start_iso == tbl[sleep_id].sleep_start_utc
             start_dt == IF start_iso = Null THEN ts_utc
                         ELSE fromisoformat(start_iso)
         IN  [tbl EXCEPT ![sleep_id] =
                 [@ EXCEPT !.wake_utc = isoformat(ts_utc),
                           !.duration_minutes =
                               (ts_utc - start_dt) \div TicksPerMinute,
                           !.date = date_str]]
    ELSE Append(tbl, [user_id |-> user_id, date |-> date_str,
                      sleep_start_utc |-> Null, wake_utc |-> isoformat(ts_utc),
                      duration_minutes |-> None])

\* log_wake, were the row with only the wake time given a duration of 0
log_wake_zero(tbl, user_id, date_str, ts_utc) ==
    IF OpenIds(tbl, user_id) # {}
    THEN LET sleep_id == CHOOSE id \in OpenIds(tbl, user_id) :
                             \A other \in OpenIds(tbl, user_id) : other <= id
             start_dt == fromisoformat(tbl[sleep_id].sleep_start_utc)
             duration == Max(0, (ts_utc - start_dt) \div TicksPerMinute)
         IN  [tbl EXCEPT ![sleep_id] =
                 [@ EXCEPT !.wake_utc = isoformat(ts_utc),
                           !.duration_minutes = duration,
                           !.date = date_str]]
    ELSE Append(tbl, [user_id |-> user_id, date |-> date_str,
                      sleep_start_utc |-> Null, wake_utc |-> isoformat(ts_utc),
                      duration_minutes |-> 0])

\* log_wake, were the statement ORDER BY id ASC: the oldest open row is closed
log_wake_oldest(tbl, user_id, date_str, ts_utc) ==
    IF OpenIds(tbl, user_id) # {}
    THEN LET sleep_id == CHOOSE id \in OpenIds(tbl, user_id) :
                             \A other \in OpenIds(tbl, user_id) : id <= other
             start_dt == fromisoformat(tbl[sleep_id].sleep_start_utc)
             duration == Max(0, (ts_utc - start_dt) \div TicksPerMinute)
         IN  [tbl EXCEPT ![sleep_id] =
                 [@ EXCEPT !.wake_utc = isoformat(ts_utc),
                           !.duration_minutes = duration,
                           !.date = date_str]]
    ELSE Append(tbl, [user_id |-> user_id, date |-> date_str,
                      sleep_start_utc |-> Null, wake_utc |-> isoformat(ts_utc),
                      duration_minutes |-> None])

\* log_wake(user_id, date_str, ts_utc): the latest row of the user without a
\* wake time (ORDER BY id DESC LIMIT 1) is closed, or a row with only the
\* wake time is inserted.  fromisoformat(None) raises, and start_dt is then
\* ts_utc.
log_wake(tbl, user_id, date_str, ts_utc) ==
    IF OpenIds(tbl, user_id) # {}
    THEN LET sleep_id == CHOOSE id \in OpenIds(tbl, user_id) :
                             \A other \in OpenIds(tbl, user_id) : other <= id
             start_iso == tbl[sleep_id].sleep_start_utc
             start_dt == IF start_iso = Null THEN ts_utc
                         ELSE fromisoformat(start_iso)
             duration == Max(0, (ts_utc - start_dt) \div TicksPerMinute)
         IN  [tbl EXCEPT ![sleep_id] =
                 [@ EXCEPT !.wake_utc = isoformat(ts_utc),
                           !.duration_minutes = duration,
                           !.date = date_str]]
    ELSE Append(tbl, [user_id |-> user_id, date |-> date_str,
                      sleep_start_utc |-> Null, wake_utc |-> isoformat(ts_utc),
                      duration_minutes |-> None])

----------------------------------------------------------------------------
(* db.py: get_day_summary *)

\* the ids of the rows of sleep_logs (tbl) of a user and a date that hold a
\* duration: WHERE user_id=? AND date=? AND duration_minutes IS NOT NULL
TimedIds(tbl, user_id, date_str) ==
    {id \in DOMAIN tbl : /\ tbl[id].user_id = user_id
                          /\ tbl[id].date = date_str
                          /\ tbl[id].duration_minutes # None}

\* get_day_summary, were the sleep row selected with ORDER BY id ASC
get_day_summary_oldest(utbl, tbls, user_id, date_str) ==
    LET timed == TimedIds(tbls[5], user_id, date_str)
        mine(row) == row.user_id = user_id /\ row.date = date_str
        acts == SelectSeq(tbls[4], mine)
        screen == SelectSeq(tbls[6], mine)
        sum[i \in 0..Len(screen)] ==
            IF i = 0 THEN 0 ELSE sum[i - 1] + screen[i].minutes
    IN  [water_target_ml |-> IF user_id \in DOMAIN utbl
                             THEN utbl[user_id].daily_water_target_ml
                             ELSE DefaultTargetMl,
         did_exercise |-> \E row \in RowsOf(tbls[2], user_id, date_str) :
                              row.did_exercise # 0,
         did_retain |-> \E row \in RowsOf(tbls[3], user_id, date_str) :
                            row.did_retain # 0,
         activities |-> [i \in DOMAIN acts |->
                            <<acts[i].activity_type, acts[i].details>>],
         sleep_minutes |->
             IF timed = {} THEN None
             ELSE tbls[5][CHOOSE id \in timed : \A other \in timed : id <= other]
                      .duration_minutes,
         screen_time_minutes |-> sum[Len(screen)]]

\* get_day_summary(user_id, date_str) on the users table utbl and the event
\* tables tbls (in the order of event_tables): only reads.  The sleep minutes
\* are those of the row with the highest id among the user's rows of the date
\* that hold a duration (ORDER BY id DESC LIMIT 1), None without such a row.
get_day_summary(utbl, tbls, user_id, date_str) ==
    LET timed == TimedIds(tbls[5], user_id, date_str)
        mine(row) == row.user_id = user_id /\ row.date = date_str
        acts == SelectSeq(tbls[4], mine)
        screen == SelectSeq(tbls[6], mine)
        sum[i \in 0..Len(screen)] ==
            IF i = 0 THEN 0 ELSE sum[i - 1] + screen[i].minutes
    IN  [water_target_ml |-> IF user_id \in DOMAIN utbl
                             THEN utbl[user_id].daily_water_target_ml
                             ELSE DefaultTargetMl,
         did_exercise |-> \E row \in RowsOf(tbls[2], user_id, date_str) :
                              row.did_exercise # 0,
         did_retain |-> \E row \in RowsOf(tbls[3], user_id, date_str) :
                            row.did_retain # 0,
         activities |-> [i \in DOMAIN acts |->
                            <<acts[i].activity_type, acts[i].details>>],
         sleep_minutes |->
             IF timed = {} THEN None
             ELSE tbls[5][CHOOSE id \in timed : \A other \in timed : other <= id]
                      .duration_minutes,
         screen_time_minutes |-> sum[Len(screen)]]

----------------------------------------------------------------------------
(* db.py: delete_all_user_data *)

\* DELETE FROM <table> WHERE user_id=? on a table kept as a sequence of rows
DeleteFrom(tbl, user_id) == SelectSeq(tbl, LAMBDA row : row.user_id # user_id)

\* delete_all_user_data, were the DELETE statements without their WHERE clause
delete_all_user_data_everyone(tbls, user_id) ==
    <<EmptyMap, {}, {}, <<>>, <<>>, <<>>>>

\* delete_all_user_data, without the statement on sleep_logs
delete_all_user_data_keep_sleep(tbls, user_id) ==
    <<[row \in {r \in DOMAIN tbls[1] : r.user_id # user_id} |-> tbls[1][row]],
      {row \in tbls[2] : row.user_id # user_id},
      {row \in tbls[3] : row.user_id # user_id},
      DeleteFrom(tbls[4], user_id),
      tbls[5],
      DeleteFrom(tbls[6], user_id)>>

\* delete_all_user_data(user_id): the six DELETE statements and the commit,
\* on the event tables tbls (in the order of event_tables); the users table
\* is not named
delete_all_user_data(tbls, user_id) ==
    <<[row \in {r \in DOMAIN tbls[1] : r.user_id # user_id} |-> tbls[1][row]],
      {row \in tbls[2] : row.user_id # user_id},
      {row \in tbls[3] : row.user_id # user_id},
      DeleteFrom(tbls[4], user_id),
      DeleteFrom(tbls[5], user_id),
      DeleteFrom(tbls[6], user_id)>>

----------------------------------------------------------------------------
(* db.py: calls of set_exercise in flight *)

\* db.py:154-157: a caller of set_exercise has its statement executed on the
\* shared connection; `order` counts the statements executed so far
set_exercise_execute(i) ==
    /\ tasks[i].pc = "execute"
    /\ exercise_logs' = set_exercise(exercise_logs, tasks[i].user_id,
                             tasks[i].date, tasks[i].did, tasks[i].ts)
    /\ tasks' = [tasks EXCEPT ![i].pc = "commit",
                  ![i].order = 1 + Cardinality({j \in DOMAIN tasks :
                                                   tasks[j].order > 0})]
    /\ UNCHANGED <<users, allowed_user_id, awaiting, bot_water, bot_summary,
                   job_queue, cancel_failures, io_failures, result, sent,
                   water_logs, retention_logs, activities, sleep_logs,
                   screen_time_logs, answer>>

\* db.py:158: conn.commit() returns to the caller
set_exercise_commit(i) ==
    /\ tasks[i].pc = "commit"
    /\ tasks' = [tasks EXCEPT ![i].pc = "done"]
    /\ UNCHANGED <<users, allowed_user_id, awaiting, bot_water, bot_summary,
                   job_queue, cancel_failures, io_failures, result, sent, store>>

----------------------------------------------------------------------------
(* handlers.py *)

\* _is_authorized, were everyone let in when no allowed id is configured
IsAuthorized_open(user_id) ==
    allowed_user_id = None \/ user_id = allowed_user_id

\* _is_authorized
IsAuthorized(user_id) == allowed_user_id # None /\ user_id = allowed_user_id

\* handlers.py:96-106 and 368-377: read the stored row, then reconcile both
\* trigger sets from it.  fw / fs: the old water / summary handles whose
\* schedule_removal() raises.
Rescheduled(tbl, user_id, fw, fs) ==
    LET fresh  == IF user_id \in DOMAIN tbl THEN tbl[user_id] ELSE DefaultRow
        tzinfo == get_tz(fresh.tz)
        w == schedule_water_reminders(bot_water, bot_summary, job_queue, user_id,
                 fresh.wake_time_minutes, fresh.sleep_time_minutes,
                 fresh.daily_water_target_ml, fresh.cup_size_ml, tzinfo, fw)
        s == reschedule_daily_summary(w.bw, bot_summary, w.q, user_id,
                 fresh.sleep_time_minutes, tzinfo, fs)
    IN  [bw |-> w.bw, bs |-> s.bs, q |-> s.q]

\* the ways schedule_removal() can raise during one reconciliation of chat_id:
\* pairs <<fw, fs>> within what is left of MaxCancelFail
CancelChoices(chat_id) ==
    LET left == MaxCancelFail - cancel_failures
        ws == IF chat_id \in DOMAIN bot_water THEN Range(bot_water[chat_id]) ELSE {}
        ss == IF chat_id \in DOMAIN bot_summary THEN {bot_summary[chat_id]} ELSE {}
        one == {<<{h}, {}>> : h \in ws} \cup {<<{}, {h}>> : h \in ss}
        two == {<<{g, h}, {}>> : g, h \in ws} \cup {<<{g}, {h}>> : g \in ws, h \in ss}
    IN  {<<{}, {}>>} \cup (IF left >= 1 THEN one ELSE {})
                     \cup (IF left >= 2 THEN two ELSE {})

\* no job callback has sent a message yet / no query has returned yet
NoMessage == [chat_id |-> None, job |-> None, cup_size_ml |-> None]

\* the last event-store call: its name and arguments, the value the written
\* key held before it (`was`), and what it returned (`value`)
Answer(query, user_id, date, arg, ts, was, value) ==
    [query |-> query, user_id |-> user_id, date |-> date, arg |-> arg,
     ts |-> ts, was |-> was, value |-> value]

NoAnswer == Answer("none", None, None, None, None, {}, None)

\* a database file without event rows, no update in flight, no job fired
NoEvents ==
    /\ water_logs = EmptyMap /\ exercise_logs = {} /\ retention_logs = {}
    /\ sleep_logs = <<>> /\ activities = <<>> /\ screen_time_logs = <<>>
    /\ answer = NoAnswer
    /\ tasks = <<>> /\ sent = NoMessage

Outcome(chat_id, outcome, stored, reconciled) ==
    [chat_id |-> chat_id, outcome |-> outcome, stored |-> stored,
     reconciled |-> reconciled]

\* an awaited call raises only while the budget of failures lasts
FaultAllowed(fault) == fault = "none" \/ io_failures < MaxIoFail

Reconcile(tbl, user_id, fw, fs) ==
    LET r == Rescheduled(tbl, user_id, fw, fs)
    IN  /\ bot_water' = r.bw
        /\ bot_summary' = r.bs
        /\ job_queue' = r.q
        /\ cancel_failures' = cancel_failures + Cardinality(fw) + Cardinality(fs)

NoReconcile == UNCHANGED <<bot_water, bot_summary, job_queue, cancel_failures>>

\* handlers.py:368-377 when run_daily raises: in schedule_water_reminders for
\* the last reminder (fault "arm_water", wake and sleep set), or in
\* reschedule_daily_summary (fault "arm_summary").  The exception leaves
\* _reschedule_jobs at that call.
RescheduledRaises(tbl, user_id, fault, fw, fs) ==
    LET fresh  == IF user_id \in DOMAIN tbl THEN tbl[user_id] ELSE DefaultRow
        tzinfo == get_tz(fresh.tz)
        last == reminders(fresh.daily_water_target_ml, fresh.cup_size_ml) - 1
    IN  IF fault = "arm_water"
        THEN LET w == schedule_water_reminders_raises(bot_water, bot_summary,
                          job_queue, user_id, fresh.wake_time_minutes,
                          fresh.sleep_time_minutes, fresh.daily_water_target_ml,
                          fresh.cup_size_ml, tzinfo, fw, last)
             IN  [bw |-> w.bw, bs |-> bot_summary, q |-> w.q]
        ELSE LET w == schedule_water_reminders(bot_water, bot_summary,
                          job_queue, user_id, fresh.wake_time_minutes,
                          fresh.sleep_time_minutes, fresh.daily_water_target_ml,
                          fresh.cup_size_ml, tzinfo, fw)
                 s == reschedule_daily_summary_raises(w.bw, bot_summary, w.q,
                          user_id, fs)
             IN  [bw |-> w.bw, bs |-> s.bs, q |-> s.q]

ReconcileRaises(tbl, user_id, fault, fw, fs) ==
    LET r == RescheduledRaises(tbl, user_id, fault, fw, fs)
    IN  /\ fault = "arm_water" =>
              /\ fs = {}
              /\ tbl[user_id].wake_time_minutes # None
              /\ tbl[user_id].sleep_time_minutes # None
        /\ bot_water' = r.bw
        /\ bot_summary' = r.bs
        /\ job_queue' = r.q
        /\ cancel_failures' = cancel_failures + Cardinality(fw) + Cardinality(fs)

\* start(update, context).  fault: "none", or the awaited call that raises:
\* "db" (_get_or_create_user), "fresh" (db.get_user inside the try), "reply".
start(user_id, fault, fw, fs) ==
    /\ FaultAllowed(fault)
    /\ io_failures' = IF fault = "none" THEN io_failures ELSE io_failures + 1
    /\ UNCHANGED <<allowed_user_id, awaiting, tasks, sent, store>>
    /\ IF ~IsAuthorized(user_id)
       THEN /\ fault = "none" /\ fw = {} /\ fs = {}
            /\ result' = Outcome(user_id, "denied", FALSE, FALSE)
            /\ UNCHANGED users /\ NoReconcile
       ELSE IF fault = "db"
       THEN /\ fw = {} /\ fs = {}
            /\ result' = Outcome(user_id, "error", FALSE, FALSE)
            /\ UNCHANGED users /\ NoReconcile
       ELSE /\ users' = upsert_user(users, user_id)
            /\ IF fault = "fresh"
               THEN /\ fw = {} /\ fs = {}
                    /\ NoReconcile
                    /\ result' = Outcome(user_id, "ok", FALSE, FALSE)
               ELSE /\ Reconcile(users', user_id, fw, fs)
                    /\ result' = Outcome(user_id,
                           IF fault = "reply" THEN "error" ELSE "ok", FALSE, TRUE)

\* handlers.py:309-338: the settings buttons and the input each one awaits
SettingsData ==
    [water_target |-> "set_water_target", cup_size |-> "set_cup_size",
     wake |-> "set_wake", sleep |-> "set_sleep", tz |-> "set_tz",
     reset |-> "confirm_reset"]

\* handle_callback(update, context) for a "settings:<button>" callback.
\* fault: "none", "db" (_get_or_create_user raises) or "reply"
\* (edit_message_text raises, after the awaited input was recorded).
handle_callback(user_id, button, fault) ==
    /\ FaultAllowed(fault)
    /\ io_failures' = IF fault = "none" THEN io_failures ELSE io_failures + 1
    /\ UNCHANGED <<allowed_user_id, tasks, sent, store>> /\ NoReconcile
    /\ IF ~IsAuthorized(user_id)
       THEN /\ fault = "none"
            /\ result' = Outcome(user_id, "denied", FALSE, FALSE)
            /\ UNCHANGED <<users, awaiting>>
       ELSE IF fault = "db"
       THEN /\ result' = Outcome(user_id, "error", FALSE, FALSE)
            /\ UNCHANGED <<users, awaiting>>
       ELSE /\ users' = upsert_user(users, user_id)
            /\ awaiting' = Put(awaiting, user_id, SettingsData[button])
            /\ result' = Outcome(user_id,
                   IF fault = "reply" THEN "error" ELSE "ok", FALSE, FALSE)

\* the column a settings input is stored in
Column(kind) ==
    CASE kind = "set_water_target" -> "daily_water_target_ml"
      [] kind = "set_cup_size" -> "cup_size_ml"
      [] kind = "set_wake" -> "wake_time_minutes"
      [] kind = "set_sleep" -> "sleep_time_minutes"
      [] kind = "set_tz" -> "tz"

\* handlers.py:392-434: what the branch for `kind` makes of the text:
\* "value" (val is stored), "invalid" (parse_time_hhmm gave None) or
\* "ValueError" (int(text) raised)
Parsed(kind, text) ==
    IF kind \in {"set_water_target", "set_cup_size"}
    THEN IF ParseInt(text).ok
         THEN [as |-> "value", val |-> ParseInt(text).val]
         ELSE [as |-> "ValueError", val |-> None]
    ELSE IF kind \in {"set_wake", "set_sleep"}
    THEN IF parse_time_hhmm(text) = None
         THEN [as |-> "invalid", val |-> None]
         ELSE [as |-> "value", val |-> parse_time_hhmm(text)]
    ELSE [as |-> "value", val |-> text]

\* handle_text(update, context).  fault: "none", or the awaited call that
\* raises: "db" (_get_or_create_user), "update" (db.update_user_settings),
\* "reply" (reply_text after the update), "fresh" (db.get_user in
\* _reschedule_jobs), "arm_water" / "arm_summary" (run_daily in
\* schedule_water_reminders / reschedule_daily_summary).  The branch for an
\* awaited "water_custom" is handle_text_water.
handle_text(user_id, text, fault, fw, fs) ==
    /\ FaultAllowed(fault)
    /\ io_failures' = IF fault = "none" THEN io_failures ELSE io_failures + 1
    /\ UNCHANGED <<allowed_user_id, tasks, sent, answer>>
    /\ IF ~IsAuthorized(user_id)
       THEN /\ fault = "none" /\ fw = {} /\ fs = {}
            /\ result' = Outcome(user_id, "denied", FALSE, FALSE)
            /\ UNCHANGED <<users, awaiting>> /\ NoReconcile
       ELSE IF user_id \notin DOMAIN awaiting
       THEN /\ fault = "none" /\ fw = {} /\ fs = {}
            /\ result' = Outcome(user_id, "ignored", FALSE, FALSE)
            /\ UNCHANGED <<users, awaiting>> /\ NoReconcile
       ELSE IF fault = "db"
       THEN /\ fw = {} /\ fs = {}
            /\ result' = Outcome(user_id, "error", FALSE, FALSE)
            /\ UNCHANGED <<users, awaiting>> /\ NoReconcile
       ELSE LET kind == awaiting[user_id]
                user == upsert_user(users, user_id)
            IN  /\ awaiting' = Pop(awaiting, user_id)
                /\ IF kind \notin DOMAIN [k \in Range(SettingsData) \ {"confirm_reset"} |-> 0]
                   THEN /\ kind # "water_custom"
                        /\ fault = "none" /\ fw = {} /\ fs = {}
                        /\ users' = user
                        /\ result' = Outcome(user_id, "ignored", FALSE, FALSE)
                        /\ NoReconcile
                   ELSE IF Parsed(kind, text).as # "value"
                   THEN /\ fault \in {"none", "reply"} /\ fw = {} /\ fs = {}
                        /\ users' = user
                        /\ result' = Outcome(user_id,
                               IF fault = "reply" THEN "error" ELSE "invalid",
                               FALSE, FALSE)
                        /\ NoReconcile
                   ELSE IF fault = "update"
                   THEN /\ fw = {} /\ fs = {}
                        /\ users' = user
                        /\ result' = Outcome(user_id, "error", FALSE, FALSE)
                        /\ NoReconcile
                   ELSE /\ users' = update_user_settings(user, user_id,
                                        Column(kind), Parsed(kind, text).val)
                        /\ reminders(users'[user_id].daily_water_target_ml,
                                     users'[user_id].cup_size_ml) <= MaxReminders
                        /\ IF fault \in {"reply", "fresh"}
                           THEN /\ fw = {} /\ fs = {}
                                /\ result' = Outcome(user_id, "error", TRUE, FALSE)
                                /\ NoReconcile
                           ELSE IF fault \in {"arm_water", "arm_summary"}
                           THEN /\ ReconcileRaises(users', user_id, fault, fw, fs)
                                /\ result' = Outcome(user_id, "error", TRUE, FALSE)
                           ELSE /\ Reconcile(users', user_id, fw, fs)
                                /\ result' = Outcome(user_id, "ok", TRUE, TRUE)
    /\ LET after == IF result'.stored
                    THEN update_user_settings_events(event_tables, users', user_id)
                    ELSE event_tables
       IN  /\ water_logs' = after[1]
           /\ exercise_logs' = after[2]
           /\ retention_logs' = after[3]
           /\ activities' = after[4]
           /\ sleep_logs' = after[5]
           /\ screen_time_logs' = after[6]

----------------------------------------------------------------------------
(* handlers.py: handle_callback for the logging buttons *)

\* the variables of the scheduler and of the pending inputs
quiet == <<allowed_user_id, awaiting, io_failures, tasks, sent, bot_water,
           bot_summary, job_queue, cancel_failures, activities,
           screen_time_logs>>

\* handle_callback for "exercise:yes" / "exercise:no" / "retention:yes" /
\* "retention:no" (handlers.py:250-261); now: the reading of the clock
handle_callback_day(user_id, table, did, now) ==
    /\ UNCHANGED <<quiet, water_logs, sleep_logs>>
    /\ IF ~IsAuthorized(user_id)
       THEN /\ result' = Outcome(user_id, "denied", FALSE, FALSE)
            /\ UNCHANGED <<users, exercise_logs, retention_logs, answer>>
       ELSE /\ users' = upsert_user(users, user_id)
            /\ result' = Outcome(user_id, "ok", FALSE, FALSE)
            /\ LET today == local_date_str(users'[user_id].tz, now)
               IN  IF table = "exercise_logs"
                   THEN /\ exercise_logs' = set_exercise(exercise_logs, user_id,
                                                today, did, now)
                        /\ UNCHANGED retention_logs
                        /\ answer' = Answer("set_exercise", user_id, today,
                               IF did THEN 1 ELSE 0, now,
                               {row.did_exercise :
                                   row \in RowsOf(exercise_logs, user_id, today)},
                               None)
                   ELSE /\ retention_logs' = set_retention(retention_logs,
                                                 user_id, today, did, now)
                        /\ UNCHANGED exercise_logs
                        /\ answer' = Answer("set_retention", user_id, today,
                               IF did THEN 1 ELSE 0, now,
                               {row.did_retain :
                                   row \in RowsOf(retention_logs, user_id, today)},
                               None)

\* handle_callback for "menu:streaks" (handlers.py:165-179).  When the water
\* streak raises, the exception leaves the handler before the other two
\* streaks are computed.
handle_callback_streaks(user_id, now) ==
    /\ UNCHANGED <<quiet, water_logs, exercise_logs, retention_logs, sleep_logs>>
    /\ IF ~IsAuthorized(user_id)
       THEN /\ result' = Outcome(user_id, "denied", FALSE, FALSE)
            /\ UNCHANGED <<users, answer>>
       ELSE /\ users' = upsert_user(users, user_id)
            /\ LET tz == users'[user_id].tz
                   today == local_date_str(tz, now)
                   water_streak ==
                       get_water_completion_streak(users', water_logs, user_id,
                           tz_offset_minutes(tz), today)
                   ex_streak ==
                       compute_boolean_streak(exercise_logs, user_id,
                           "did_exercise", 1, today)
                   ret_streak ==
                       compute_boolean_streak(retention_logs, user_id,
                           "did_retain", 1, today)
               IN  IF water_streak = None
                   THEN /\ result' = Outcome(user_id, "error", FALSE, FALSE)
                        /\ answer' = Answer("streaks", user_id, today, None, now,
                               {}, [water |-> None, exercise |-> None,
                                    retention |-> None])
                   ELSE /\ result' = Outcome(user_id, "ok", FALSE, FALSE)
                        /\ answer' = Answer("streaks", user_id, today, None, now,
                               {}, [water |-> water_streak,
                                    exercise |-> ex_streak,
                                    retention |-> ret_streak])

\* handlers.py:223-233 and 382-390: the event is stamped with one reading of
\* now_utc() (`now`); local_date_str reads the clock again (`later`) for the
\* day whose total is reported
LoggedWater(user_id, ml, now, later) ==
    /\ water_logs' = add_water(water_logs, user_id, ml, now)
    /\ result' = Outcome(user_id, "ok", FALSE, FALSE)
    /\ LET tz == users'[user_id].tz
           today == local_date_str(tz, later)
       IN  answer' = Answer("add_water", user_id, today, ml, now, {},
                         get_water_total_for_date(water_logs', user_id, today,
                                                  tz_offset_minutes(tz)))

\* handle_callback for "water:add:<amount>", amount the digits of a button
\* (handlers.py:212-235)
handle_callback_water(user_id, ml, now, later) ==
    /\ now <= later
    /\ UNCHANGED <<quiet, exercise_logs, retention_logs, sleep_logs>>
    /\ IF ~IsAuthorized(user_id)
       THEN /\ result' = Outcome(user_id, "denied", FALSE, FALSE)
            /\ UNCHANGED <<users, water_logs, answer>>
       ELSE /\ users' = upsert_user(users, user_id)
            /\ LoggedWater(user_id, ml, now, later)

\* handle_callback for "water:add:custom" (handlers.py:215-220)
handle_callback_water_custom(user_id) ==
    /\ UNCHANGED <<allowed_user_id, io_failures, tasks, sent, store>>
    /\ NoReconcile
    /\ IF ~IsAuthorized(user_id)
       THEN /\ result' = Outcome(user_id, "denied", FALSE, FALSE)
            /\ UNCHANGED <<users, awaiting>>
       ELSE /\ users' = upsert_user(users, user_id)
            /\ awaiting' = Put(awaiting, user_id, "water_custom")
            /\ result' = Outcome(user_id, "ok", FALSE, FALSE)

\* handle_text while "water_custom" is awaited (handlers.py:380-391 and
\* 461-464): int(text) is logged as it is; ValueError is answered with
\* "Please send a valid number."; the awaited input is popped either way
handle_text_water(user_id, text, now, later) ==
    /\ now <= later
    /\ IsAuthorized(user_id)
    /\ user_id \in DOMAIN awaiting
    /\ awaiting[user_id] = "water_custom"
    /\ UNCHANGED <<allowed_user_id, io_failures, tasks, sent, exercise_logs,
                   retention_logs, activities, sleep_logs, screen_time_logs>>
    /\ NoReconcile
    /\ users' = upsert_user(users, user_id)
    /\ awaiting' = Pop(awaiting, user_id)
    /\ IF ParseInt(text).ok
       THEN LoggedWater(user_id, ParseInt(text).val, now, later)
       ELSE /\ result' = Outcome(user_id, "invalid", FALSE, FALSE)
            /\ UNCHANGED <<water_logs, answer>>

\* handle_callback for "sleep:start" / "sleep:wake" (handlers.py:288-297).
\* now: the reading local_date_str takes for the date of the row; later: the
\* reading of now_utc() the row is stamped with
handle_callback_sleep(user_id, button, now, later) ==
    /\ now <= later
    /\ UNCHANGED <<quiet, water_logs, exercise_logs, retention_logs>>
    /\ IF ~IsAuthorized(user_id)
       THEN /\ result' = Outcome(user_id, "denied", FALSE, FALSE)
            /\ UNCHANGED <<users, sleep_logs, answer>>
       ELSE /\ users' = upsert_user(users, user_id)
            /\ result' = Outcome(user_id, "ok", FALSE, FALSE)
            /\ LET today == local_date_str(users'[user_id].tz, now)
               IN  IF button = "start"
                   THEN /\ sleep_logs' = log_sleep_start(sleep_logs, user_id,
                                                         today, later)
                        /\ answer' = Answer("log_sleep_start", user_id, today,
                                            None, later, {}, None)
                   ELSE /\ sleep_logs' = log_wake(sleep_logs, user_id, today,
                                                  later)
                        /\ answer' = Answer("log_wake", user_id, today, None,
                                            later, {}, None)

\* handle_callback for "menu:view" (handlers.py:183-187) with
\* _send_day_summary (493-509): the summary of the user's local date at the
\* reading `now` of the clock is read and sent; nothing is written.  The
\* answer keeps the water total (arg) and the sleep minutes (value) of the
\* text sent.
handle_callback_view(user_id, now) ==
    /\ UNCHANGED <<quiet, event_tables>>
    /\ IF ~IsAuthorized(user_id)
       THEN /\ result' = Outcome(user_id, "denied", FALSE, FALSE)
            /\ UNCHANGED <<users, answer>>
       ELSE /\ users' = upsert_user(users, user_id)
            /\ result' = Outcome(user_id, "ok", FALSE, FALSE)
            /\ LET tz == users'[user_id].tz
                   today == local_date_str(tz, now)
                   total == get_water_total_for_date(water_logs, user_id, today,
                                                     tz_offset_minutes(tz))
                   summary == get_day_summary(users', event_tables, user_id,
                                              today)
               IN  answer' = Answer("get_day_summary", user_id, today, total, now,
                                    {}, summary.sleep_minutes)

\* handle_callback for "confirm_reset:yes" / "confirm_reset:no"
\* (handlers.py:199-207, _handle_reset 527-530): the awaited input is popped,
\* and on yes every event row of the user is deleted
handle_callback_confirm_reset(user_id, do) ==
    /\ UNCHANGED <<allowed_user_id, io_failures, tasks, sent, answer>>
    /\ NoReconcile
    /\ IF ~IsAuthorized(user_id)
       THEN /\ result' = Outcome(user_id, "denied", FALSE, FALSE)
            /\ UNCHANGED <<users, awaiting, event_tables>>
       ELSE /\ users' = upsert_user(users, user_id)
            /\ awaiting' = Pop(awaiting, user_id)
            /\ result' = Outcome(user_id, "ok", FALSE, FALSE)
            /\ LET after == IF do THEN delete_all_user_data(event_tables, user_id)
                            ELSE event_tables
               IN  /\ water_logs' = after[1]
                   /\ exercise_logs' = after[2]
                   /\ retention_logs' = after[3]
                   /\ activities' = after[4]
                   /\ sleep_logs' = after[5]
                   /\ screen_time_logs' = after[6]

----------------------------------------------------------------------------
(* jobs.py: the job callbacks *)

\* send_water_reminder, were the cup size read from the users table when the
\* job fires
send_water_reminder_reread(job) ==
    /\ job \in DOMAIN job_queue
    /\ job_queue[job].callback = "send_water_reminder"
    /\ LET chat_id == job_queue[job].chat_id
       IN  sent' = [chat_id |-> chat_id, job |-> job,
                    cup_size_ml |-> IF chat_id \in DOMAIN users
                                    THEN users[chat_id].cup_size_ml
                                    ELSE DefaultCupMl]
    /\ UNCHANGED <<users, allowed_user_id, awaiting, io_failures, result, tasks,
                   store>>
    /\ NoReconcile

\* send_water_reminder(context) for an armed job: job.data is the dict
\* {'cup_size_ml': ...} run_daily was given, so the default 250 is not used
send_water_reminder(job) ==
    /\ job \in DOMAIN job_queue
    /\ job_queue[job].callback = "send_water_reminder"
    /\ sent' = [chat_id |-> job_queue[job].chat_id, job |-> job,
                cup_size_ml |-> job_queue[job].cup_size_ml]
    /\ UNCHANGED <<users, allowed_user_id, awaiting, io_failures, result, tasks,
                   store>>
    /\ NoReconcile

----------------------------------------------------------------------------
(* handle_text for a settings input, one awaited call at a time *)

\* at most this many settings inputs are dispatched in one behaviour
MaxTasks == 2

\* Dispatchable, were the Application built with concurrent_updates(True)
Dispatchable_concurrent(ts) == TRUE

\* main.py:41-46 builds the Application without concurrent_updates: the next
\* update is handed to its handler when the handler of the previous one has
\* returned
Dispatchable(ts) == \A i \in DOMAIN ts : ts[i].pc = "done"

\* the kinds of input handle_text stores as a setting
SettingKinds == Range(SettingsData) \ {"confirm_reset"}

\* the text is a settings input that handle_text will store
Storable(user_id, text) ==
    /\ IsAuthorized(user_id)
    /\ user_id \in DOMAIN awaiting
    /\ awaiting[user_id] \in SettingKinds
    /\ Parsed(awaiting[user_id], text).as = "value"

\* handlers.py:356-411: up to the return of db.update_user_settings
handle_text_store(user_id, text) ==
    /\ Storable(user_id, text)
    /\ Len(tasks) < MaxTasks
    /\ LET kind == awaiting[user_id]
       IN  users' = update_user_settings(upsert_user(users, user_id), user_id,
                        Column(kind), Parsed(kind, text).val)
    /\ reminders(users'[user_id].daily_water_target_ml,
                 users'[user_id].cup_size_ml) <= MaxReminders
    /\ tasks' = Append(tasks, [user_id |-> user_id, pc |-> "stored",
                               fresh |-> DefaultRow])
    /\ UNCHANGED <<allowed_user_id, awaiting, io_failures, result, sent, store>>
    /\ NoReconcile

\* handlers.py:412-414 and 369: reply_text has returned, db.get_user returns
handle_text_fetch(i) ==
    /\ tasks[i].pc = "stored"
    /\ LET user_id == tasks[i].user_id
       IN  tasks' = [tasks EXCEPT ![i].pc = "fetched",
                                  ![i].fresh = IF user_id \in DOMAIN users
                                               THEN users[user_id]
                                               ELSE DefaultRow]
    /\ UNCHANGED <<users, allowed_user_id, awaiting, io_failures, result, sent,
                   store>>
    /\ NoReconcile

\* handlers.py:370-377 and 464-465: the triggers are reconciled from the row
\* read, the awaited input is popped, the handler returns
handle_text_reschedule(i) ==
    /\ tasks[i].pc = "fetched"
    /\ LET user_id == tasks[i].user_id
           r == Rescheduled(Put(EmptyMap, user_id, tasks[i].fresh), user_id, {}, {})
       IN  /\ bot_water' = r.bw
           /\ bot_summary' = r.bs
           /\ job_queue' = r.q
           /\ awaiting' = Pop(awaiting, user_id)
           /\ result' = Outcome(user_id, "ok", TRUE, TRUE)
    /\ tasks' = [tasks EXCEPT ![i].pc = "done", ![i].fresh = DefaultRow]
    /\ UNCHANGED <<users, allowed_user_id, cancel_failures, io_failures, sent,
                   store>>

----------------------------------------------------------------------------
(* handle_callback for "sleep:wake", db.log_wake taken one awaited call at a
   time *)

\* handlers.py:124-134 and 293-295: up to the call of db.log_wake(user_id,
\* today, now_utc()); now and later are the two readings of the clock
handle_callback_wake(user_id, now, later) ==
    /\ IsAuthorized(user_id)
    /\ now <= later
    /\ Len(tasks) < MaxTasks
    /\ users' = upsert_user(users, user_id)
    /\ tasks' = Append(tasks,
                   [user_id |-> user_id, pc |-> "select",
                    date |-> local_date_str(users'[user_id].tz, now),
                    ts |-> later, sleep_id |-> None, start_iso |-> Null])
    /\ UNCHANGED <<allowed_user_id, awaiting, io_failures, result, sent, store>>
    /\ NoReconcile

\* db.py:195-200: the SELECT of the latest open row of the user has returned;
\* sleep_id 0 stands for no row
log_wake_select(i) ==
    /\ tasks[i].pc = "select"
    /\ LET open == OpenIds(sleep_logs, tasks[i].user_id)
           sleep_id == CHOOSE id \in open : \A other \in open : other <= id
       IN  tasks' = [tasks EXCEPT
                       ![i].pc = "write",
                       ![i].sleep_id = IF open = {} THEN 0 ELSE sleep_id,
                       ![i].start_iso = IF open = {} THEN Null
                                        ELSE sleep_logs[sleep_id].sleep_start_utc]
    /\ UNCHANGED <<users, allowed_user_id, awaiting, io_failures, result, sent,
                   store>>
    /\ NoReconcile

\* db.py:201-219 and handlers.py:296-297: the UPDATE of the row selected, or
\* the INSERT of a wake-only row, is executed and committed, and the handler
\* returns
log_wake_write(i) ==
    /\ tasks[i].pc = "write"
    /\ LET call == tasks[i]
           start_dt == IF call.start_iso = Null THEN call.ts
                       ELSE fromisoformat(call.start_iso)
           duration == Max(0, (call.ts - start_dt) \div TicksPerMinute)
       IN  /\ sleep_logs' =
                IF call.sleep_id # 0
                THEN [sleep_logs EXCEPT ![call.sleep_id] =
                         [@ EXCEPT !.wake_utc = isoformat(call.ts),
                                   !.duration_minutes = duration,
                                   !.date = call.date]]
                ELSE Append(sleep_logs,
                            [user_id |-> call.user_id, date |-> call.date,
                             sleep_start_utc |-> Null,
                             wake_utc |-> isoformat(call.ts),
                             duration_minutes |-> None])
           /\ answer' = Answer("log_wake", call.user_id, call.date, None,
                               call.ts, {}, None)
           /\ result' = Outcome(call.user_id, "ok", FALSE, FALSE)
    /\ tasks' = [tasks EXCEPT ![i].pc = "done"]
    /\ UNCHANGED <<users, allowed_user_id, awaiting, io_failures, sent,
                   water_logs, exercise_logs, retention_logs, activities,
                   screen_time_logs>>
    /\ NoReconcile

----------------------------------------------------------------------------
(* The inputs the model enters *)

TimeTexts == {<<"0", "7", ":", "0", "0">>, <<" ", "0", ":", "0", "0">>, <<"7", ":", "5">>}

IntTexts == {<<"7", "5", "0">>, <<"7", "5", "0", "m", "l">>}

TzTexts == {<<"A", "s", "i", "a", "/", "T", "o", "k", "y", "o">>,
            <<"M", "a", "r", "s">>}

Texts(kind) == IF kind = "set_tz" THEN TzTexts ELSE TimeTexts \cup IntTexts

Faults == {"none", "db", "update", "reply", "fresh"}

----------------------------------------------------------------------------
(* The bot: a fresh database, handlers run one update at a time *)

Init ==
    /\ users = EmptyMap
    /\ allowed_user_id \in {None, 1}
    /\ awaiting = EmptyMap
    /\ bot_water = EmptyMap
    /\ bot_summary = EmptyMap
    /\ job_queue = EmptyMap
    /\ cancel_failures = 0
    /\ io_failures = 0
    /\ result = Outcome(None, "none", FALSE, FALSE)
    /\ NoEvents

\* In Spec every schedule_removal() succeeds; SpecCancel below lets it raise.
Start ==
    \E user_id \in UserIds, fault \in {"none", "db", "fresh", "reply"} :
        start(user_id, fault, {}, {})

Callback ==
    \E user_id \in UserIds, button \in DOMAIN SettingsData,
       fault \in {"none", "db", "reply"} :
        handle_callback(user_id, button, fault)

Text ==
    \E user_id \in UserIds, fault \in Faults :
        \E text \in Texts(IF user_id \in DOMAIN awaiting THEN awaiting[user_id]
                          ELSE "none") :
            handle_text(user_id, text, fault, {}, {})

Next ==
    \/ Start
    \/ Callback
    \/ Text
    \/ \E user_id \in UserIds, do \in BOOLEAN :
          handle_callback_confirm_reset(user_id, do)

Spec == Init /\ [][Next]_vars

----------------------------------------------------------------------------
(* The scheduler on a persisted database: the bot starts on a users table an
   earlier run left behind, and /start reconciles the triggers from it *)

GridStep == MinutesPerDay \div (GridCells + 1)

TimeGrid == {None, 0, 1, 420, 430, 1350, 1439}
                \cup {GridStep * k : k \in 1..GridCells}

TargetGrid == {-250, 0, 3, 250, 750, 2000, 4000}

CupGrid == {-250, 0, 1, 250, 750}

Rows(times, targets, cups, zones) ==
    {r \in [daily_water_target_ml : targets, cup_size_ml : cups,
            wake_time_minutes : times, sleep_time_minutes : times, tz : zones] :
        reminders(r.daily_water_target_ml, r.cup_size_ml) <= MaxReminders}

Persisted(rows) ==
    /\ \E r \in rows : users = Put(EmptyMap, 1, r)
    /\ allowed_user_id = 1
    /\ awaiting = EmptyMap
    /\ bot_water = EmptyMap
    /\ bot_summary = EmptyMap
    /\ job_queue = EmptyMap
    /\ cancel_failures = 0
    /\ io_failures = 0
    /\ result = Outcome(None, "none", FALSE, FALSE)
    /\ NoEvents

SchedInit == Persisted(Rows(TimeGrid, TargetGrid, CupGrid, {UTC} \cup TzTexts))

SchedStart == start(1, "none", {}, {})

SpecSched == SchedInit /\ [][SchedStart]_vars

\* the same, with schedule_removal() raising for up to MaxCancelFail jobs
CancelInit ==
    Persisted(Rows({None, 420, 430, 1350}, {750, 4000}, {250, 750}, {UTC}))

CancelStart == \E c \in CancelChoices(1) : start(1, "none", c[1], c[2])

SpecCancel == CancelInit /\ [][CancelStart]_vars

----------------------------------------------------------------------------
(* Settings changes while the job queue fails: schedule_removal() raises for
   up to MaxCancelFail jobs, run_daily raises within MaxIoFail *)

SettingsInit == Persisted(Rows({420, 1350}, {750}, {250}, {UTC}))

SettingsStart == start(1, "none", {}, {})

SettingsCallback ==
    \E button \in {"wake", "sleep", "cup_size"} : handle_callback(1, button, "none")

SettingsText ==
    \E fault \in {"none", "arm_water", "arm_summary"}, c \in CancelChoices(1) :
        \E text \in Texts(IF 1 \in DOMAIN awaiting THEN awaiting[1] ELSE "none") :
            handle_text(1, text, fault, c[1], c[2])

SettingsNext == SettingsStart \/ SettingsCallback \/ SettingsText

SpecSettings == SettingsInit /\ [][SettingsNext]_vars

----------------------------------------------------------------------------
(* The armed water reminders fire between the updates; replies can fail *)

FireInit == Persisted(Rows({420, 1350}, {750}, {250}, {UTC}))

FireStart == start(1, "none", {}, {})

FireCallback ==
    \E button \in {"cup_size", "water_target"} : handle_callback(1, button, "none")

FireText ==
    \E text \in IntTexts, fault \in {"none", "reply"} :
        handle_text(1, text, fault, {}, {})

FireReminder == \E job \in DOMAIN job_queue : send_water_reminder(job)

FireNext == FireStart \/ FireCallback \/ FireText \/ FireReminder

SpecFire == FireInit /\ [][FireNext]_vars

----------------------------------------------------------------------------
(* The exercise and retention buttons, pressed at some readings of the clock;
   the database file already holds a row of another user *)

Tokyo == <<"A", "s", "i", "a", "/", "T", "o", "k", "y", "o">>

\* no job armed, no input awaited
Quiet ==
    /\ allowed_user_id = 1
    /\ awaiting = EmptyMap
    /\ bot_water = EmptyMap
    /\ bot_summary = EmptyMap
    /\ job_queue = EmptyMap
    /\ cancel_failures = 0
    /\ io_failures = 0
    /\ result = Outcome(None, "none", FALSE, FALSE)
    /\ sent = NoMessage
    /\ activities = <<>>
    /\ screen_time_logs = <<>>

DayInstants == {At(2, 12, 0, 0, 0), At(3, 15, 0, 0, 1), At(4, 12, 0, 0, 0)}

DaysInit ==
    /\ Quiet
    /\ tasks = <<>>
    /\ \E row \in Rows({None}, {DefaultTargetMl}, {DefaultCupMl}, {UTC, Tokyo}) :
          users = Put(EmptyMap, 1, row)
    /\ water_logs = EmptyMap
    /\ exercise_logs =
          set_exercise({}, 2, date_isoformat(3), TRUE, At(3, 12, 0, 0, 0))
    /\ retention_logs = {}
    /\ sleep_logs = <<>>
    /\ answer = NoAnswer

DayCallback ==
    \E table \in {"exercise_logs", "retention_logs"}, did \in BOOLEAN,
       now \in DayInstants :
        handle_callback_day(1, table, did, now)

DayStreaks == \E now \in DayInstants : handle_callback_streaks(1, now)

DaysNext == DayCallback \/ DayStreaks

SpecDays == DaysInit /\ [][DaysNext]_vars

----------------------------------------------------------------------------
(* Two callers of set_exercise at once on the one connection *)

\* a call of set_exercise about to execute its statement
UpsertCalls ==
    {[user_id |-> 1, date |-> date_isoformat(day), did |-> did, ts |-> ts,
      pc |-> "execute", order |-> 0] :
        day \in {3, 4}, did \in BOOLEAN,
        ts \in {At(4, 12, 0, 0, 0), At(4, 12, 0, 0, 1)}}

UpsertInit ==
    /\ Quiet
    /\ users = Put(EmptyMap, 1, DefaultRow)
    /\ tasks \in UpsertCalls \X UpsertCalls
    /\ water_logs = EmptyMap
    /\ exercise_logs \in
          {{}, set_exercise({}, 1, date_isoformat(3), TRUE, At(3, 12, 0, 0, 0))}
    /\ retention_logs = {}
    /\ sleep_logs = <<>>
    /\ answer = NoAnswer

UpsertExecute == \E i \in DOMAIN tasks : set_exercise_execute(i)

UpsertCommit == \E i \in DOMAIN tasks : set_exercise_commit(i)

UpsertNext == UpsertExecute \/ UpsertCommit

SpecUpsert == UpsertInit /\ [][UpsertNext]_vars

----------------------------------------------------------------------------
(* Settings changes of one user, handle_text taken one awaited call at a
   time; the Application hands over one update at a time *)

SerialInit == Persisted(Rows({420, 1350}, {750}, {250}, {UTC}))

SerialCallback ==
    /\ Dispatchable(tasks)
    /\ \E button \in {"wake", "cup_size"} : handle_callback(1, button, "none")

SerialText ==
    /\ Dispatchable(tasks)
    /\ \E text \in Texts(IF 1 \in DOMAIN awaiting THEN awaiting[1] ELSE "none") :
          IF Storable(1, text)
          THEN handle_text_store(1, text)
          ELSE handle_text(1, text, "none", {}, {})

SerialFetch == \E i \in DOMAIN tasks : handle_text_fetch(i)

SerialReschedule == \E i \in DOMAIN tasks : handle_text_reschedule(i)

SerialNext == SerialCallback \/ SerialText \/ SerialFetch \/ SerialReschedule

SpecSerial == SerialInit /\ [][SerialNext]_vars

----------------------------------------------------------------------------
(* The water buttons, a custom amount and the water target, at readings of the
   clock around midnight UTC and midnight in Tokyo (the button pressed is
   "+250 ml"); the database file already holds an event of user 1 and one of
   another user *)

\* the rows of user 1 in water_logs
MaxWater == 3

RECURSIVE CountRows(_, _)
\* SELECT COUNT(*) over the selected rows
CountRows(tbl, rows) ==
    IF rows = {} THEN 0
    ELSE LET row == CHOOSE r \in rows : TRUE
         IN  tbl[row] + CountRows(tbl, rows \ {row})

WaterRoom ==
    CountRows(water_logs, {row \in DOMAIN water_logs : row.user_id = 1})
        < MaxWater

WaterInstants ==
    {At(2, 23, 59, 59, 1), At(3, 0, 0, 0, 0), At(3, 15, 0, 0, 0)}

\* the texts sent as a custom amount
WaterTexts == {<<"-", "2", "5", "0">>, <<"m", "l">>}

\* the texts sent as the water target
TargetTexts == {<<"5", "0", "0">>, <<"0">>}

WaterInit ==
    /\ Quiet
    /\ tasks = <<>>
    /\ \E row \in Rows({None}, {250}, {DefaultCupMl}, {UTC, Tokyo}) :
          users = Put(EmptyMap, 1, row)
    /\ water_logs = add_water(add_water(EmptyMap, 2, 250, At(3, 0, 0, 0, 0)),
                              1, 250, At(1, 12, 0, 0, 0))
    /\ exercise_logs = {}
    /\ retention_logs = {}
    /\ sleep_logs = <<>>
    /\ answer = NoAnswer

WaterCallback ==
    /\ WaterRoom
    /\ \E now \in WaterInstants, later \in WaterInstants :
          handle_callback_water(1, 250, now, later)

WaterCustom == handle_callback_water_custom(1)

WaterText ==
    /\ WaterRoom
    /\ \E text \in WaterTexts, now \in WaterInstants, later \in WaterInstants :
          handle_text_water(1, text, now, later)

WaterTarget == handle_callback(1, "water_target", "none")

WaterTargetText == \E text \in TargetTexts : handle_text(1, text, "none", {}, {})

WaterStreaks == \E now \in WaterInstants : handle_callback_streaks(1, now)

WaterNext ==
    \/ WaterCallback \/ WaterCustom \/ WaterText
    \/ WaterTarget \/ WaterTargetText \/ WaterStreaks

SpecWater == WaterInit /\ [][WaterNext]_vars

----------------------------------------------------------------------------
(* The sleep buttons, pressed at readings of a clock that may be set back
   between two presses; the database file already holds an open row of
   another user *)

\* the rows of sleep_logs
MaxSleep == 3

SleepInit ==
    /\ Quiet
    /\ tasks = <<>>
    /\ \E row \in Rows({None}, {DefaultTargetMl}, {DefaultCupMl}, {UTC, Tokyo}) :
          users = Put(EmptyMap, 1, row)
    /\ water_logs = EmptyMap
    /\ exercise_logs = {}
    /\ retention_logs = {}
    /\ sleep_logs = log_sleep_start(<<>>, 2, date_isoformat(1), At(1, 22, 0, 0, 0))
    /\ answer = NoAnswer

SleepCallback ==
    /\ \E button \in {"start", "wake"}, now \in WaterInstants,
          later \in WaterInstants :
          handle_callback_sleep(1, button, now, later)
    /\ Len(sleep_logs') <= MaxSleep

SleepNext ==
    \/ SleepCallback
    \/ \E now \in WaterInstants : handle_callback_view(1, now)

SpecSleep == SleepInit /\ [][SleepNext]_vars

----------------------------------------------------------------------------
(* The logging buttons, the time-zone setting and the reset, pressed and sent
   by users 1 and 2; one of them is the allowed user of this run, or no
   allowed user is configured; the database file already holds a settings row
   and rows in every event table for both *)

\* the rows a user has in one event table
MaxStore == 2

\* the instant the rows of the file were written at, and their date
Before == At(2, 12, 0, 0, 0)

\* the readings of the clock
StoreInstants == {At(3, 15, 0, 0, 1)}

\* the rows of the allowed user in each event table the buttons write
StoreCounts ==
    <<CountRows(water_logs,
                {row \in DOMAIN water_logs : row.user_id = allowed_user_id}),
      Cardinality({row \in exercise_logs : row.user_id = allowed_user_id}),
      Len(sleep_logs) - Len(DeleteFrom(sleep_logs, allowed_user_id))>>

StoreRoom == \A i \in 1..3 : StoreCounts[i] <= MaxStore

StoreInit ==
    /\ allowed_user_id \in {None, 1, 2}
    /\ users = Put(Put(EmptyMap, 1, DefaultRow), 2,
                   [DefaultRow EXCEPT !.tz = Tokyo, !.daily_water_target_ml = 750])
    /\ awaiting = EmptyMap
    /\ bot_water = EmptyMap
    /\ bot_summary = EmptyMap
    /\ job_queue = EmptyMap
    /\ cancel_failures = 0
    /\ io_failures = 0
    /\ result = Outcome(None, "none", FALSE, FALSE)
    /\ tasks = <<>>
    /\ sent = NoMessage
    /\ answer = NoAnswer
    /\ water_logs = add_water(add_water(EmptyMap, 2, 250, Before), 1, 250, Before)
    /\ exercise_logs =
          set_exercise(set_exercise({}, 2, date_isoformat(2), TRUE, Before),
                       1, date_isoformat(2), TRUE, Before)
    /\ retention_logs =
          set_retention(set_retention({}, 2, date_isoformat(2), TRUE, Before),
                        1, date_isoformat(2), TRUE, Before)
    /\ activities =
          [u \in 1..2 |->
             [user_id |-> u, date |-> date_isoformat(2),
              activity_type |-> "Reading", details |-> "",
              ts_utc |-> isoformat(Before)]]
    /\ sleep_logs =
          log_sleep_start(log_sleep_start(<<>>, 1, date_isoformat(2), Before),
                          2, date_isoformat(2), Before)
    /\ screen_time_logs =
          [u \in 1..2 |->
             [user_id |-> u, date |-> date_isoformat(2), minutes |-> 90,
              ts_utc |-> isoformat(Before)]]

StoreNext ==
    \E user_id \in {1, 2} :
        \/ start(user_id, "none", {}, {})
        \/ \E button \in {"tz", "reset"} : handle_callback(user_id, button, "none")
        \/ handle_text(user_id, Tokyo, "none", {}, {})
        \/ \E do \in BOOLEAN : handle_callback_confirm_reset(user_id, do)
        \/ \E now \in StoreInstants :
              handle_callback_water(user_id, 250, now, now) /\ StoreRoom'
        \/ \E now \in StoreInstants :
              handle_callback_day(user_id, "exercise_logs", TRUE, now) /\ StoreRoom'
        \/ \E button \in {"start", "wake"}, now \in StoreInstants :
              handle_callback_sleep(user_id, button, now, now) /\ StoreRoom'

SpecStore == StoreInit /\ [][StoreNext]_vars

----------------------------------------------------------------------------
(* The scheduler with a cup of 1 ml: as many reminders as the target has
   millilitres, up to one more than a day has minutes *)

\* the most reminders one reconciliation arms
MaxDense == 1441

\* the wake and sleep times the fullest days are armed for
DenseWindows == {<<420, 430>>, <<1439, 0>>}

DenseInit ==
    Persisted({r \in [daily_water_target_ml : {3, 7, MaxDense - 1, MaxDense},
                      cup_size_ml : {1},
                      wake_time_minutes : {0, 1, 420, 430, 1439},
                      sleep_time_minutes : {0, 1, 420, 430, 1439},
                      tz : {UTC}] :
                  \/ r.daily_water_target_ml < MaxDense - 1
                  \/ <<r.wake_time_minutes, r.sleep_time_minutes>> \in DenseWindows})

DenseNext == start(1, "none", {}, {})

SpecDense == DenseInit /\ [][DenseNext]_vars

----------------------------------------------------------------------------
(* Wake events of one user, db.log_wake taken one awaited call at a time; the
   Application hands over one update at a time.  The database file holds an
   open interval of another user and, or not, one of the user *)

WakeInit ==
    /\ Quiet
    /\ tasks = <<>>
    /\ users = Put(EmptyMap, 1, DefaultRow)
    /\ water_logs = EmptyMap
    /\ exercise_logs = {}
    /\ retention_logs = {}
    /\ \E rows \in {log_sleep_start(<<>>, 2, date_isoformat(1), At(1, 22, 0, 0, 0))} :
          sleep_logs \in {rows, log_sleep_start(rows, 1, date_isoformat(1),
                                                At(1, 23, 0, 0, 0))}
    /\ answer = NoAnswer

WakeNext ==
    \/ /\ Dispatchable(tasks)
       /\ \E now \in WaterInstants : handle_callback_wake(1, now, now)
    \/ /\ Dispatchable(tasks)
       /\ \E now \in WaterInstants : handle_callback_sleep(1, "start", now, now)
       /\ Len(sleep_logs') <= MaxSleep
    \/ \E i \in DOMAIN tasks : log_wake_select(i)
    \/ \E i \in DOMAIN tasks : log_wake_write(i)

SpecWake == WakeInit /\ [][WakeNext]_vars

----------------------------------------------------------------------------
(* utils.minutes_to_time called with any integer *)

\* the arguments are the integers from -MaxClock to MaxClock
MaxClock == 2900

ClockInit ==
    /\ Quiet
    /\ users = EmptyMap
    /\ tasks = <<>>
    /\ water_logs = EmptyMap
    /\ exercise_logs = {}
    /\ retention_logs = {}
    /\ sleep_logs = <<>>
    /\ \E m \in -MaxClock..MaxClock :
          answer = Answer("minutes_to_time", None, Null, m, None, {}, Null)

ClockNext ==
    /\ answer.value = Null
    /\ answer' = [answer EXCEPT !.value = minutes_to_time(answer.arg)]
    /\ UNCHANGED <<users, allowed_user_id, awaiting, bot_water, bot_summary,
                   job_queue, cancel_failures, io_failures, result, tasks, sent,
                   event_tables>>

SpecClock == ClockInit /\ [][ClockNext]_vars

----------------------------------------------------------------------------
(* What the claims speak of *)

\* the handles of the jobs armed for a chat with a given callback
ArmedOf(chat_id, callback) ==
    {h \in DOMAIN job_queue :
        job_queue[h].chat_id = chat_id /\ job_queue[h].callback = callback}

WaterArmed(chat_id) == ArmedOf(chat_id, "send_water_reminder")

SummaryArmed(chat_id) == ArmedOf(chat_id, "send_daily_summary")

\* the chat's water registry entry, empty when there is none
Registry(chat_id) ==
    IF chat_id \in DOMAIN bot_water THEN bot_water[chat_id] ELSE <<>>

\* the last handler run reconciled the triggers of this chat
Reconciled(chat_id) == result.reconciled /\ result.chat_id = chat_id

\* a clock time as minutes after midnight, and back
ClockMinutes(t) == t[1] * 60 + t[2]

Clock(m) == <<m \div 60, m % 60>>

BothSet(row) == row.wake_time_minutes # None /\ row.sleep_time_minutes # None

\* reminderCount, activeWindowMinutes and interval as the specification
\* states them
ReminderCount(row) == Max(1, row.daily_water_target_ml \div row.cup_size_ml)

ActiveWindow(row) ==
    IF row.sleep_time_minutes > row.wake_time_minutes
    THEN row.sleep_time_minutes - row.wake_time_minutes
    ELSE MinutesPerDay - row.wake_time_minutes

Interval(row) == Max(1, ActiveWindow(row) \div ReminderCount(row))

\* the armed triggers of a chat as a multiset of <<callback, clock time>>
TimesBag(chat_id) ==
    LET mine == {h \in DOMAIN job_queue : job_queue[h].chat_id = chat_id}
        keys == {<<job_queue[h].callback, job_queue[h].time>> : h \in mine}
    IN  [k \in keys |->
            Cardinality({h \in mine :
                <<job_queue[h].callback, job_queue[h].time>> = k})]

----------------------------------------------------------------------------
(* C1 - C4: the derivation of the water trigger times (SpecSched) *)

\* C1: for every settings tuple (cup size positive, as the data model has it)
\* with wake and sleep both set, one reconciliation arms exactly
\* max(1, floor(dailyTargetMl / cupSizeMl)) water triggers for the user.
C1_ReminderCount ==
    \A u \in DOMAIN users :
        (Reconciled(u) /\ BothSet(users[u]) /\ users[u].cup_size_ml > 0)
        => /\ Cardinality(WaterArmed(u)) = ReminderCount(users[u])
           /\ Len(Registry(u)) = ReminderCount(users[u])

C1_Witness ==
    /\ Reconciled(1) /\ BothSet(users[1])
    /\ users[1].daily_water_target_ml = 4000 /\ users[1].cup_size_ml = 750
    /\ Cardinality(WaterArmed(1)) = 5

ValidSleepAfterWake(row) ==
    /\ BothSet(row)
    /\ row.sleep_time_minutes > row.wake_time_minutes
    /\ row.daily_water_target_ml > 0 /\ row.cup_size_ml > 0

\* C2 as stated: with sleep > wake every water trigger has a clock time
\* strictly greater than wake and at most sleep plus a drift of interval minutes.
C2_Original ==
    \A u \in DOMAIN users :
        (Reconciled(u) /\ ValidSleepAfterWake(users[u]))
        => \A h \in WaterArmed(u) :
              /\ ClockMinutes(job_queue[h].time) > users[u].wake_time_minutes
              /\ ClockMinutes(job_queue[h].time)
                    <= users[u].sleep_time_minutes + Interval(users[u])

\* C2, amended: with sleep > wake every water trigger fires k minutes after
\* wake (clock time mod 1440) for some k in 1..max(window, reminderCount);
\* when reminderCount <= window every trigger is strictly greater than wake
\* and at most sleep, otherwise the overrun past sleep is
\* reminderCount - window minutes, which interval does not bound.
C2_WithinWindowOrOverrun ==
    \A u \in DOMAIN users :
        (Reconciled(u) /\ ValidSleepAfterWake(users[u]))
        => LET wake == users[u].wake_time_minutes
               window == ActiveWindow(users[u])
               count == ReminderCount(users[u])
           IN  \A h \in WaterArmed(u) :
                  LET c == ClockMinutes(job_queue[h].time)
                  IN  /\ \E k \in 1..Max(window, count) :
                            c = (wake + k) % MinutesPerDay
                      /\ count <= window
                            => (c > wake /\ c <= users[u].sleep_time_minutes)

C2_Witness ==
    /\ Reconciled(1) /\ ValidSleepAfterWake(users[1])
    /\ ReminderCount(users[1]) > ActiveWindow(users[1])
    /\ \E h \in WaterArmed(1) :
          ClockMinutes(job_queue[h].time)
              > users[1].sleep_time_minutes + Interval(users[1])

\* C3: water trigger i (0-indexed, i in [0, reminderCount)) fires at clock time
\* (wake + interval*(i+1)) mod 1440 with interval = max(1, floor(window /
\* reminderCount)) and window = sleep - wake if sleep > wake, else 1440 - wake;
\* wake=420, sleep=1350, target=2000, cup=250 gives 08:56, 10:52, 12:48, 14:44,
\* 16:40, 18:36, 20:32, 22:28.
C3_TriggerTimes ==
    \A u \in DOMAIN users :
        (Reconciled(u) /\ BothSet(users[u]) /\ users[u].cup_size_ml > 0)
        => LET row == users[u]
               reg == Registry(u)
           IN  /\ Len(reg) = ReminderCount(row)
               /\ \A i \in 0..(ReminderCount(row) - 1) :
                     /\ job_queue[reg[i + 1]].idx = i
                     /\ job_queue[reg[i + 1]].time =
                           Clock((row.wake_time_minutes + Interval(row) * (i + 1))
                                 % MinutesPerDay)
               /\ (/\ row.wake_time_minutes = 420 /\ row.sleep_time_minutes = 1350
                   /\ row.daily_water_target_ml = 2000 /\ row.cup_size_ml = 250)
                  => [i \in 1..Len(reg) |-> job_queue[reg[i]].time] =
                        << <<8, 56>>, <<10, 52>>, <<12, 48>>, <<14, 44>>,
                           <<16, 40>>, <<18, 36>>, <<20, 32>>, <<22, 28>> >>

C3_Witness ==
    /\ Reconciled(1)
    /\ users[1].wake_time_minutes = 420 /\ users[1].sleep_time_minutes = 1350
    /\ users[1].daily_water_target_ml = 2000 /\ users[1].cup_size_ml = 250
    /\ Len(Registry(1)) = 8
    /\ job_queue[Registry(1)[8]].time = <<22, 28>>

PositiveBothSet(row) ==
    BothSet(row) /\ row.daily_water_target_ml > 0 /\ row.cup_size_ml > 0

FirstTrigger(u) == job_queue[Registry(u)[1]]

\* C4 as stated: with wake and sleep set and positive target and cup size the
\* clock time of trigger 0 differs from wakeMinutes.
C4_Original ==
    \A u \in DOMAIN users :
        (Reconciled(u) /\ PositiveBothSet(users[u]))
        => FirstTrigger(u).time # Clock(users[u].wake_time_minutes)

\* C4, amended: with wake and sleep set and positive target and cup size the
\* clock time of trigger 0 equals wakeMinutes exactly when wake = 0, sleep = 0
\* and target < 2 * cup (one reminder, a whole day after wake); in every other
\* case it differs from wakeMinutes.
C4_FirstNotAtWakeUnlessWholeDay ==
    \A u \in DOMAIN users :
        (Reconciled(u) /\ PositiveBothSet(users[u]))
        => (FirstTrigger(u).time = Clock(users[u].wake_time_minutes)
            <=> /\ users[u].wake_time_minutes = 0
                /\ users[u].sleep_time_minutes = 0
                /\ users[u].daily_water_target_ml < 2 * users[u].cup_size_ml)

C4_Witness ==
    /\ Reconciled(1) /\ PositiveBothSet(users[1])
    /\ users[1].wake_time_minutes = 0 /\ users[1].sleep_time_minutes = 0
    /\ users[1].daily_water_target_ml = 750 /\ users[1].cup_size_ml = 250
    /\ FirstTrigger(1).time = <<8, 0>>

----------------------------------------------------------------------------
(* C5 - C10: reconciliation *)

\* C5: when wakeMinutes or sleepMinutes is unset a water reconciliation arms no
\* water trigger: after it no water job of the user is armed, the user has no
\* water registry entry, and the call returned without error.
C5_UnsetArmsNothing ==
    \A u \in DOMAIN users :
        (Reconciled(u) /\ ~BothSet(users[u]))
        => /\ WaterArmed(u) = {}
           /\ u \notin DOMAIN bot_water
           /\ result.outcome = "ok"

C5_Witness ==
    /\ Reconciled(1)
    /\ users[1].wake_time_minutes = 420 /\ users[1].sleep_time_minutes = None
    /\ WaterArmed(1) = {} /\ SummaryArmed(1) # {}

\* C6: after any sequence of summary reconciliations (cancellations
\* succeeding) at most one summary trigger is armed for a user, it is the one
\* the registry holds, and after a reconciliation exactly one is armed whose
\* clock time is sleepMinutes if set, else 21:00.
C6_OneSummaryTrigger ==
    cancel_failures = 0 =>
    \A u \in UserIds :
        /\ Cardinality(SummaryArmed(u)) <= 1
        /\ u \in DOMAIN bot_summary => SummaryArmed(u) = {bot_summary[u]}
        /\ Reconciled(u) =>
              /\ u \in DOMAIN bot_summary
              /\ Cardinality(SummaryArmed(u)) = 1
              /\ job_queue[bot_summary[u]].time =
                    IF users[u].sleep_time_minutes # None
                    THEN Clock(users[u].sleep_time_minutes)
                    ELSE <<21, 0>>

C6_Witness ==
    /\ Reconciled(1) /\ result.stored
    /\ users[1].wake_time_minutes # None /\ users[1].sleep_time_minutes = 420
    /\ SummaryArmed(1) = {bot_summary[1]}
    /\ job_queue[bot_summary[1]].time = <<7, 0>>

\* C7: when cancellations succeed, after any sequence of reconciliations the
\* water triggers armed for a user are exactly those listed in the user's
\* registry entry, each listed once: no stale trigger stays armed and none
\* accumulates.
C7_ArmedIsRegistry ==
    cancel_failures = 0 =>
    \A u \in UserIds :
        /\ WaterArmed(u) = Range(Registry(u))
        /\ Cardinality(Range(Registry(u))) = Len(Registry(u))

C7_Witness ==
    /\ Reconciled(1) /\ result.stored /\ BothSet(users[1])
    /\ users[1].daily_water_target_ml = 750
    /\ Len(Registry(1)) = 3 /\ Cardinality(WaterArmed(1)) = 3

\* C8: reconciling a user with identical settings twice in a row yields the
\* same armed trigger times (same count, same clock times) as reconciling once.
C8_Idempotent ==
    [][\A u \in DOMAIN users :
          (Reconciled(u) /\ Reconciled(u)' /\ users' = users)
          => TimesBag(u)' = TimesBag(u)]_vars

C8_Witness ==
    /\ Reconciled(1) /\ BothSet(users[1])
    /\ Cardinality(WaterArmed(1)) = 16 /\ Cardinality(SummaryArmed(1)) = 1

\* C9: a cancellation failure during reconciliation is swallowed: every old
\* trigger whose cancellation did not fail is gone (the armed triggers outside
\* the registry are no more than the failures), the new trigger set is armed
\* and is the user's registry entry, and no error reaches the caller.
C9_CancelFailureSwallowed ==
    \A u \in DOMAIN users :
        Reconciled(u) =>
            /\ result.outcome = "ok"
            /\ Len(Registry(u)) =
                  (IF BothSet(users[u]) THEN ReminderCount(users[u]) ELSE 0)
            /\ Cardinality(Range(Registry(u))) = Len(Registry(u))
            /\ Range(Registry(u)) \subseteq WaterArmed(u)
            /\ u \in DOMAIN bot_summary /\ bot_summary[u] \in SummaryArmed(u)
            /\ Cardinality(WaterArmed(u) \ Range(Registry(u)))
                  + Cardinality(SummaryArmed(u) \ {bot_summary[u]})
               <= cancel_failures

C9_Witness ==
    /\ Reconciled(1) /\ cancel_failures = 1 /\ result.outcome = "ok"
    /\ Len(Registry(1)) = 16
    /\ Cardinality(WaterArmed(1)) = 17

\* the triggers armed for the user are those derived from the stored settings
InStep(u) ==
    LET row == users[u]
        tzinfo == get_tz(row.tz)
        reg == Registry(u)
    IN  /\ u \in DOMAIN bot_summary
        /\ SummaryArmed(u) = {bot_summary[u]}
        /\ job_queue[bot_summary[u]].time = summary_time(row.sleep_time_minutes)
        /\ job_queue[bot_summary[u]].tzinfo = tzinfo
        /\ WaterArmed(u) = Range(reg)
        /\ IF ~BothSet(row) THEN reg = <<>>
           ELSE LET times == water_times(row.wake_time_minutes,
                                 row.sleep_time_minutes,
                                 row.daily_water_target_ml, row.cup_size_ml)
                IN  /\ Len(reg) = Len(times)
                    /\ \A i \in 1..Len(reg) :
                          job_queue[reg[i]] =
                              WaterJob(u, i - 1, times[i], row.cup_size_ml, tzinfo)

\* C10: once a handler that stored a new wake time, sleep time, daily target,
\* cup size or time zone has finished, the user's armed water triggers and
\* summary trigger are those derived from the settings now stored.
C10_StoredSettingsInStep == result.stored => InStep(result.chat_id)

----------------------------------------------------------------------------
(* C11: job queue failures during the reconciliation of a settings change
   (SpecSettings) *)

\* the triggers armed for the user are exactly those the registry lists
RegistryConsistent(u) ==
    /\ WaterArmed(u) = Range(Registry(u))
    /\ SummaryArmed(u) =
           (IF u \in DOMAIN bot_summary THEN {bot_summary[u]} ELSE {})

\* C11: when cancelling or arming a trigger fails part-way through the
\* reconciliation that follows a settings change, the handler still ends
\* without error with the new setting stored, and the user's registry lists
\* exactly the triggers still armed for that user.
C11_FailureKeepsUpdateAndRegistry ==
    [][\A u \in UserIds :
          (/\ result'.chat_id = u /\ result'.stored
           /\ (cancel_failures' > cancel_failures \/ io_failures' > io_failures))
          => (result'.outcome = "ok" /\ RegistryConsistent(u)')]_vars

----------------------------------------------------------------------------
(* C12: two settings changes of one user (SpecSerial) *)

\* the settings inputs of user u dispatched so far
TasksOf(u) == {i \in DOMAIN tasks : tasks[i].user_id = u}

\* C12: reconciliation for one user is serialized with respect to itself:
\* once two settings changes of the same user have both completed, the
\* user's registry holds the handles of one reconciliation, each once, no
\* other trigger of the user is armed, and the armed times are those derived
\* from the settings finally stored.
C12_LastReconciliationWins ==
    \A u \in UserIds :
        (/\ Cardinality(TasksOf(u)) >= 2
         /\ \A i \in TasksOf(u) : tasks[i].pc = "done")
        => /\ InStep(u)
           /\ Cardinality(Range(Registry(u))) = Len(Registry(u))

C12_Witness ==
    /\ Cardinality(TasksOf(1)) = 2
    /\ \A i \in TasksOf(1) : tasks[i].pc = "done"
    /\ users[1].wake_time_minutes = 0 /\ users[1].cup_size_ml = 750
    /\ Len(Registry(1)) = 1
    /\ job_queue[Registry(1)[1]].cup_size_ml = 750

----------------------------------------------------------------------------
(* C13: what a fired water reminder reports (SpecFire) *)

\* the water jobs a step arms
NewlyArmed ==
    {h \in DOMAIN job_queue' :
        /\ job_queue'[h].callback = "send_water_reminder"
        /\ (h \notin DOMAIN job_queue \/ job_queue[h] # job_queue'[h])}

\* C13: a water trigger captures the stored cupSizeMl when it is armed, and
\* each fired reminder reports the value its trigger captured; the stored cup
\* size is not read when the trigger fires.
C13_ReportsCapturedCup ==
    [][/\ \A h \in NewlyArmed :
             job_queue'[h].cup_size_ml = users'[job_queue'[h].chat_id].cup_size_ml
       /\ sent' # sent =>
             /\ sent'.job \in DOMAIN job_queue
             /\ sent'.chat_id = job_queue[sent'.job].chat_id
             /\ sent'.cup_size_ml = job_queue[sent'.job].cup_size_ml]_vars

C13_Witness ==
    /\ sent.chat_id = 1 /\ sent.job \in WaterArmed(1)
    /\ sent.cup_size_ml = 250 /\ job_queue[sent.job].cup_size_ml = 250
    /\ users[1].cup_size_ml = 750

----------------------------------------------------------------------------
(* C14: the boolean-day upsert (SpecDays) *)

\* at most one row of the table for each (user_id, date)
OnePerKey(tbl) ==
    \A r1, r2 \in tbl : (r1.user_id = r2.user_id /\ r1.date = r2.date) => r1 = r2

\* C14: after any sequence of set_exercise / set_retention calls each table
\* holds at most one record per (userId, localDate); the record of the key
\* written last carries the value and timestamp of that write, and a write
\* leaves the records of every other key as they were.
C14_BooleanDayUpsert ==
    [][/\ OnePerKey(exercise_logs') /\ OnePerKey(retention_logs')
       /\ answer'.query = "set_exercise" =>
             /\ RowsOf(exercise_logs', answer'.user_id, answer'.date) =
                   {[user_id |-> answer'.user_id, date |-> answer'.date,
                     did_exercise |-> answer'.arg,
                     ts_utc |-> isoformat(answer'.ts)]}
             /\ exercise_logs' \ RowsOf(exercise_logs', answer'.user_id, answer'.date)
                   = exercise_logs \ RowsOf(exercise_logs, answer'.user_id, answer'.date)
             /\ retention_logs' = retention_logs
       /\ answer'.query = "set_retention" =>
             /\ RowsOf(retention_logs', answer'.user_id, answer'.date) =
                   {[user_id |-> answer'.user_id, date |-> answer'.date,
                     did_retain |-> answer'.arg,
                     ts_utc |-> isoformat(answer'.ts)]}
             /\ retention_logs' \ RowsOf(retention_logs', answer'.user_id, answer'.date)
                   = retention_logs \ RowsOf(retention_logs, answer'.user_id, answer'.date)
             /\ exercise_logs' = exercise_logs]_vars

\* exercise set to true, then to false for the same date: one record, false
C14_Witness ==
    /\ answer.query = "set_exercise" /\ answer.was = {1} /\ answer.arg = 0
    /\ \E row \in exercise_logs :
          /\ RowsOf(exercise_logs, answer.user_id, answer.date) = {row}
          /\ row.did_exercise = 0
    /\ Cardinality(exercise_logs) = 3

----------------------------------------------------------------------------
(* C15: two upserts of one key at once (SpecUpsert) *)

\* C15: in every interleaving of two upserts for one (userId, localDate),
\* once both have returned the store holds exactly one record for the key,
\* whose value and timestamp are both those of the writer whose statement
\* was executed last.
C15_UpsertAtomic ==
    \A i, j \in DOMAIN tasks :
        (/\ i # j
         /\ tasks[i].pc = "done" /\ tasks[j].pc = "done"
         /\ tasks[i].user_id = tasks[j].user_id /\ tasks[i].date = tasks[j].date
         /\ tasks[i].order > tasks[j].order)
        => RowsOf(exercise_logs, tasks[i].user_id, tasks[i].date) =
              {[user_id |-> tasks[i].user_id, date |-> tasks[i].date,
                did_exercise |-> IF tasks[i].did THEN 1 ELSE 0,
                ts_utc |-> isoformat(tasks[i].ts)]}

C15_Witness ==
    /\ Len(tasks) = 2
    /\ tasks[1].pc = "done" /\ tasks[2].pc = "done"
    /\ tasks[1].date = tasks[2].date
    /\ tasks[1].did /\ ~tasks[2].did /\ tasks[1].ts # tasks[2].ts
    /\ tasks[1].order = 2
    /\ Cardinality(exercise_logs) = 1
    /\ \E row \in exercise_logs :
          row.did_exercise = 1 /\ row.ts_utc = isoformat(tasks[1].ts)

----------------------------------------------------------------------------
(* C16: booleanStreak (SpecDays) *)

\* the day of the month of a date text
DayOf(date_str) == DecimalVal(SubSeq(date_str, 9, 10))

\* a record of the user exists for that day with the expected value
Matches(tbl, u, column, expected, day) ==
    \E row \in tbl :
        /\ row.user_id = u /\ row.date = date_isoformat(day)
        /\ row[column] = expected

\* the length of the longest run of consecutive days ending at `day` on each
\* of which a record with the expected value exists
LongestRun(tbl, u, column, expected, day) ==
    CHOOSE n \in 0..day :
        /\ \A k \in 0..(n - 1) : Matches(tbl, u, column, expected, day - k)
        /\ n < day => ~Matches(tbl, u, column, expected, day - n)

\* C16: booleanStreak(user, kind, expected, fromDate) is the length of the
\* longest run of consecutive calendar days ending at fromDate on each of
\* which a record exists with the expected value; the first missing or
\* mismatched day ends the walk uncounted.
C16_BooleanStreak ==
    (answer.query = "streaks" /\ result.outcome = "ok")
    => /\ answer.value.exercise =
             LongestRun(exercise_logs, answer.user_id, "did_exercise", 1,
                        DayOf(answer.date))
       /\ answer.value.retention =
             LongestRun(retention_logs, answer.user_id, "did_retain", 1,
                        DayOf(answer.date))

\* exercise true on D, D-1, D-2 and no record on D-3 gives 3; retention has
\* a mismatched record on D and gives 0
C16_Witness ==
    /\ answer.query = "streaks" /\ answer.date = date_isoformat(4)
    /\ answer.value.exercise = 3
    /\ RowsOf(exercise_logs, 1, date_isoformat(1)) = {}
    /\ \E row \in RowsOf(retention_logs, 1, date_isoformat(4)) : row.did_retain = 0
    /\ \E row \in RowsOf(retention_logs, 1, date_isoformat(3)) : row.did_retain = 1
    /\ answer.value.retention = 0

\* the WaterEvents of user u with an instant in [fromUtc, toUtc), instants
\* compared as numbers
WaterEvents(u, fromUtc, toUtc) ==
    {row \in DOMAIN water_logs :
        /\ row.user_id = u
        /\ fromUtc <= fromisoformat(row.ts_utc)
        /\ fromisoformat(row.ts_utc) < toUtc}

\* local midnight of a day of January minus the time-zone offset
FromUtc(day, off) == (day - 1) * TicksPerDay - off * TicksPerMinute

RECURSIVE AmountOf(_)
\* the sum of amountMl over a set of rows of water_logs, each as many times
\* as it is stored
AmountOf(rows) ==
    IF rows = {} THEN 0
    ELSE LET row == CHOOSE r \in rows : TRUE
         IN  water_logs[row] * row.amount_ml + AmountOf(rows \ {row})

\* waterTotalForLocalDate of the specification
WaterTotal(u, day, off) ==
    AmountOf(WaterEvents(u, FromUtc(day, off), FromUtc(day, off) + TicksPerDay))

\* the number of consecutive days, backward from `day`, whose total is not
\* below the target, up to the first day whose total is below it (for a
\* positive target: a day before January has no event)
WaterRun(u, day, off, target) ==
    CHOOSE n \in 0..day :
        /\ \A d \in (day - n + 1)..day : WaterTotal(u, d, off) >= target
        /\ n = day \/ WaterTotal(u, day - n, off) < target

\* C17: whenever get_water_completion_streak returns a count for a user's
\* local date, the count is the number of consecutive local days, backward
\* from that date, whose water total is not below the target now stored, up
\* to the first day whose total is below it: the target stored at the time of
\* the scan judges every day scanned.
C17_WaterStreak ==
    \A now \in WaterInstants :
        LET tz == users[1].tz
            off == tz_offset_minutes(tz)
            today == local_date_str(tz, now)
            streak == get_water_completion_streak(users, water_logs, 1, off, today)
        IN  streak # None
            => streak = WaterRun(1, DayOf(today), off,
                                 users[1].daily_water_target_ml)

\* the streaks button reported a water streak of 2 days; the target was then
\* changed to 500 and the same days, with the same events, make a streak of 0
C17_Witness ==
    /\ answer.query = "streaks"
    /\ answer.value.water = 2
    /\ result.stored
    /\ users[1].daily_water_target_ml = 500
    /\ get_water_completion_streak(users, water_logs, 1,
           tz_offset_minutes(users[1].tz), answer.date) = 0
    /\ WaterTotal(1, DayOf(answer.date), tz_offset_minutes(users[1].tz)) = 250

\* C18: get_water_total_for_date(user, date, offset) is the sum of amountMl
\* over exactly that user's events with fromUtc <= instantUtc < fromUtc + 24h,
\* fromUtc being local midnight of the date minus the offset; it is 0 when
\* there are none and no event of another user is in it.
C18_WaterTotal ==
    \A u \in {1, 2}, day \in 1..4, off \in {utcoffset(UTC), utcoffset(Tokyo)} :
        LET total == get_water_total_for_date(water_logs, u,
                                              date_isoformat(day), off)
            events == WaterEvents(u, FromUtc(day, off),
                                  FromUtc(day, off) + TicksPerDay)
        IN  /\ total = AmountOf(events)
            /\ events = {} => total = 0

\* user 1 logged 250 at midnight UTC of January 3 and is told a total of 250
\* for that day, while the table holds an event of user 1 half a second
\* earlier and an event of user 2 at that very midnight
C18_Witness ==
    /\ answer.query = "add_water"
    /\ answer.user_id = 1
    /\ answer.ts = At(3, 0, 0, 0, 0)
    /\ answer.date = date_isoformat(3)
    /\ answer.value = 250
    /\ users[1].tz = UTC
    /\ \E row \in DOMAIN water_logs :
          row.user_id = 1 /\ row.ts_utc = isoformat(At(2, 23, 59, 59, 1))
    /\ \E row \in DOMAIN water_logs :
          row.user_id = 2 /\ row.ts_utc = isoformat(At(3, 0, 0, 0, 0))

\* C19: once a water amount of 250 was logged at instant T, and nothing has
\* been logged since, the water total of the local date containing T is at
\* least 250.
C19_WaterRoundTrip ==
    (answer.query = "add_water" /\ answer.arg = 250)
    => get_water_total_for_date(water_logs, answer.user_id,
           local_date_str(users[answer.user_id].tz, answer.ts),
           tz_offset_minutes(users[answer.user_id].tz)) >= 250

\* the SleepIntervals with both ends known
BothEnds ==
    {id \in DOMAIN sleep_logs :
        sleep_logs[id].sleep_start_utc # Null /\ sleep_logs[id].wake_utc # Null}

\* the latest start user u logged, 0 when there is none
LastStart(u) ==
    LET started == {id \in DOMAIN sleep_logs :
                       sleep_logs[id].user_id = u
                           /\ sleep_logs[id].sleep_start_utc # Null}
    IN  IF started = {} THEN 0
        ELSE CHOOSE id \in started : \A other \in started : other <= id

\* durationMinutes = max(0, floor((wakeUtc - startUtc) in minutes))
Durations ==
    \A id \in BothEnds :
        sleep_logs[id].duration_minutes =
            Max(0, (fromisoformat(sleep_logs[id].wake_utc)
                        - fromisoformat(sleep_logs[id].sleep_start_utc))
                       \div TicksPerMinute)

\* a wake logged while the user's latest start has no wake yet closes that
\* start: no row is added, the row keeps its start and gets the wake instant,
\* and no other row changes
Pairing ==
    LET u == answer'.user_id
        id == LastStart(u)
    IN  (/\ answer'.query = "log_wake"
         /\ sleep_logs' # sleep_logs
         /\ id # 0
         /\ sleep_logs[id].wake_utc = Null)
        => /\ Len(sleep_logs') = Len(sleep_logs)
           /\ sleep_logs'[id].sleep_start_utc = sleep_logs[id].sleep_start_utc
           /\ sleep_logs'[id].wake_utc = isoformat(answer'.ts)
           /\ \A other \in DOMAIN sleep_logs \ {id} :
                 sleep_logs'[other] = sleep_logs[other]

\* C20: a start logged at T1 followed by a wake logged at T2, with no start
\* of the user in between, yields one SleepInterval with both ends set; and
\* in every reachable state every SleepInterval with both ends known has
\* durationMinutes = max(0, floor((wakeUtc - startUtc) in minutes)), 0 when
\* the wake is earlier than the start.
C20_SleepPairing == []Durations /\ [][Pairing]_vars

\* user 1 pressed wake at a reading of the clock earlier than the start it
\* closes: the interval has both ends and a duration of 0
C20_Witness ==
    /\ answer.query = "log_wake"
    /\ \E id \in BothEnds :
          /\ sleep_logs[id].user_id = 1
          /\ sleep_logs[id].wake_utc = isoformat(answer.ts)
          /\ fromisoformat(sleep_logs[id].wake_utc)
                < fromisoformat(sleep_logs[id].sleep_start_utc)
          /\ sleep_logs[id].duration_minutes = 0

\* the open SleepIntervals of user u: its records without a wake instant
OpenIntervals(u) ==
    {id \in DOMAIN sleep_logs :
        sleep_logs[id].user_id = u /\ sleep_logs[id].wake_utc = Null}

\* the step is a wake event of a user
WakeLogged == answer'.query = "log_wake" /\ sleep_logs' # sleep_logs

\* C21: a wake event of a user without an open SleepInterval is answered as
\* any other; it adds one record that holds only the wake instant, its start
\* and its duration unset, and changes no record there was.
C21_WakeWithoutOpen ==
    [][(WakeLogged /\ OpenIntervals(answer'.user_id) = {})
       => /\ result'.outcome = "ok"
          /\ Len(sleep_logs') = Len(sleep_logs) + 1
          /\ SubSeq(sleep_logs', 1, Len(sleep_logs)) = sleep_logs
          /\ sleep_logs'[Len(sleep_logs')] =
                [user_id |-> answer'.user_id, date |-> answer'.date,
                 sleep_start_utc |-> Null,
                 wake_utc |-> isoformat(answer'.ts),
                 duration_minutes |-> None]]_vars

\* user 1 pressed wake after its one interval was completed: the last record
\* holds only the wake instant, the completed interval and the open row of
\* user 2 are as they were
C21_Witness ==
    /\ answer.query = "log_wake"
    /\ Len(sleep_logs) = 3
    /\ sleep_logs[1].user_id = 2 /\ sleep_logs[1].wake_utc = Null
    /\ 2 \in BothEnds
    /\ sleep_logs[3].user_id = 1
    /\ sleep_logs[3].sleep_start_utc = Null
    /\ sleep_logs[3].wake_utc = isoformat(answer.ts)
    /\ sleep_logs[3].duration_minutes = None

\* the most recently created open SleepInterval of user u
LatestOpen(u) ==
    CHOOSE id \in OpenIntervals(u) : \A other \in OpenIntervals(u) : other <= id

\* C22: a wake event of a user with open SleepIntervals completes the most
\* recently created of them and no other: that record gets the wake instant,
\* a duration and the date assigned at wake time, keeps its user and start,
\* and every other record (older open ones, other users' records) is as it
\* was; no record is added.
C22_WakeClosesLatestOpen ==
    [][(WakeLogged /\ OpenIntervals(answer'.user_id) # {})
       => LET id == LatestOpen(answer'.user_id)
          IN  /\ Len(sleep_logs') = Len(sleep_logs)
              /\ sleep_logs'[id].wake_utc = isoformat(answer'.ts)
              /\ sleep_logs'[id].duration_minutes # None
              /\ sleep_logs'[id].date = answer'.date
              /\ sleep_logs'[id].user_id = sleep_logs[id].user_id
              /\ sleep_logs'[id].sleep_start_utc = sleep_logs[id].sleep_start_utc
              /\ \A other \in DOMAIN sleep_logs \ {id} :
                    sleep_logs'[other] = sleep_logs[other]]_vars

\* user 1 pressed wake with two intervals open: the later one is completed
\* under a date that is not the local date of its start, the earlier one and
\* the row of user 2 are still open
C22_Witness ==
    /\ answer.query = "log_wake"
    /\ Len(sleep_logs) = 3
    /\ OpenIntervals(2) = {1}
    /\ OpenIntervals(1) = {2}
    /\ 3 \in BothEnds
    /\ sleep_logs[3].wake_utc = isoformat(answer.ts)
    /\ sleep_logs[3].date = answer.date
    /\ sleep_logs[3].date #
          local_date_str(users[1].tz, fromisoformat(sleep_logs[3].sleep_start_utc))

\* the rows of user u in the event tables tbls, table by table
UserRows(tbls, u) ==
    <<[row \in {r \in DOMAIN tbls[1] : r.user_id = u} |-> tbls[1][row]],
      {row \in tbls[2] : row.user_id = u},
      {row \in tbls[3] : row.user_id = u},
      SelectSeq(tbls[4], LAMBDA row : row.user_id = u),
      SelectSeq(tbls[5], LAMBDA row : row.user_id = u),
      SelectSeq(tbls[6], LAMBDA row : row.user_id = u)>>

\* no row in any event table
NoRows == <<EmptyMap, {}, {}, <<>>, <<>>, <<>>>>

\* C23: the reset a user confirms deletes every row of that user in the
\* water, exercise, retention, activity, sleep and screen-time tables, and
\* leaves the settings row of the user as it was.
C23_PurgeDeletesEvents ==
    [][\A u \in DOMAIN users :
          (IsAuthorized(u) /\ handle_callback_confirm_reset(u, TRUE))
          => /\ UserRows(event_tables, u)' = NoRows
             /\ users' = users]_vars

\* user 1 had rows in all six tables and confirmed the reset: none is left,
\* the settings row is there, and the rows of user 2 are
C23_Witness ==
    /\ UserRows(event_tables, 1) = NoRows
    /\ 1 \in DOMAIN users
    /\ result = Outcome(1, "ok", FALSE, FALSE)
    /\ \A i \in 1..6 : UserRows(event_tables, 2)[i] # NoRows[i]

\* C24: a step that changes the time zone stored for a user changes no row
\* of any event table: dates assigned earlier are not derived anew.
C24_ZoneChangeKeepsEvents ==
    [][\A u \in DOMAIN users :
          (u \in DOMAIN users' /\ users'[u].tz # users[u].tz)
          => event_tables' = event_tables]_vars

\* user 1 logged exercise under UTC and then set Asia/Tokyo: the row keeps
\* the UTC date, which is not the date of its instant in the zone now stored
C24_Witness ==
    /\ users[1].tz = Tokyo
    /\ result = Outcome(1, "ok", TRUE, TRUE)
    /\ \E row \in exercise_logs :
          /\ row.user_id = 1
          /\ row.date # local_date_str(Tokyo, fromisoformat(row.ts_utc))

\* all that is kept for user u: the rows in the event tables, the settings
\* row, the registry entries and the armed triggers
Kept(u) ==
    <<UserRows(event_tables, u),
      IF u \in DOMAIN users THEN <<users[u]>> ELSE <<>>,
      Registry(u),
      IF u \in DOMAIN bot_summary THEN <<bot_summary[u]>> ELSE <<>>,
      [h \in {k \in DOMAIN job_queue : job_queue[k].chat_id = u} |-> job_queue[h]]>>

\* C29: whatever a user does (logging water, exercise, sleep start and wake,
\* the reset, a settings update with its reconciliation, or a request that is
\* denied), the rows, settings row, registry entries and armed triggers of the
\* other user are as they were, in every order of the two users' requests.
C29_NoCrossUser ==
    [][\A b \in {1, 2} : b # result'.chat_id => Kept(b)' = Kept(b)]_vars

\* user 1 confirmed the reset and has triggers armed, the rows of user 2 are
\* all there, and a request of user 2 has since been denied
C29_Witness ==
    /\ allowed_user_id = 1
    /\ result = Outcome(2, "denied", FALSE, FALSE)
    /\ UserRows(event_tables, 1) = NoRows
    /\ \A i \in 1..6 : UserRows(event_tables, 2)[i] # NoRows[i]
    /\ SummaryArmed(1) # {}
    /\ users[2].tz = Tokyo /\ users[1].tz = Tokyo

\* a name pytz does not resolve
Mars == <<"M", "a", "r", "s">>

\* C25: a time-zone name pytz does not know fails nothing.  For every stored
\* name of that kind the offset is 0 and the local date of an instant is its
\* UTC date; and the set_tz input with such a name, when no send or database
\* call fails, stores the name as typed and ends with the triggers of the
\* user reconciled, every one of them armed in UTC.
C25_InvalidZoneFallsBack ==
    /\ [](\A u \in DOMAIN users :
            users[u].tz \notin KnownZones
            => /\ tz_offset_minutes(users[u].tz) = 0
               /\ \A t \in WaterInstants :
                     local_date_str(users[u].tz, t) = local_date_str(UTC, t))
    /\ [][\A u \in DOMAIN awaiting :
            (awaiting[u] = "set_tz" /\ handle_text(u, Mars, "none", {}, {}))
            => /\ result' = Outcome(u, "ok", TRUE, TRUE)
               /\ users'[u].tz = Mars
               /\ (WaterArmed(u) \cup SummaryArmed(u))' # {}
               /\ \A h \in DOMAIN job_queue' :
                     job_queue'[h].tzinfo = get_tz(users'[job_queue'[h].chat_id].tz)
               /\ \A h \in (WaterArmed(u) \cup SummaryArmed(u))' :
                     job_queue'[h].tzinfo = UTC]_vars

\* the user, with wake and sleep times set, typed Mars as the time zone: the
\* name is stored and the water and summary triggers are armed in UTC
C25_Witness ==
    /\ result = Outcome(1, "ok", TRUE, TRUE)
    /\ users[1].tz = Mars
    /\ WaterArmed(1) # {}
    /\ SummaryArmed(1) # {}
    /\ \A h \in DOMAIN job_queue : job_queue[h].tzinfo = UTC

\* C26: minutes_to_time takes any integer, negative or 1440 and more, to
\* the clock time of its residue modulo 1440: the hour is the residue's
\* whole hours and the minute what is left, so -30 gives 23:30.
C26_ClockTimeModulo ==
    (answer.query = "minutes_to_time" /\ answer.value # Null)
    => LET m == answer.arg % MinutesPerDay
       IN  /\ answer.value = <<m \div 60, m % 60>>
           /\ answer.value[1] \in 0..23
           /\ answer.value[2] \in 0..59
           /\ (answer.arg = -30 => answer.value = <<23, 30>>)

\* minutes_to_time(-30) returned 23:30
C26_Witness ==
    /\ answer.query = "minutes_to_time"
    /\ answer.arg = -30
    /\ answer.value = <<23, 30>>

\* C27: every stored settings row has a water target above 0, a cup size
\* above 0, and wake and sleep times that are unset or minutes of a day
\* (0..1439), whatever settings the user has sent.
C27_ProfileRanges ==
    \A u \in DOMAIN users :
        /\ users[u].daily_water_target_ml > 0
        /\ users[u].cup_size_ml > 0
        /\ users[u].wake_time_minutes \in {None} \cup (0..(MinutesPerDay - 1))
        /\ users[u].sleep_time_minutes \in {None} \cup (0..(MinutesPerDay - 1))

\* C28: a value that is not a number or is out of range never reaches the
\* store: every stored water row has an amount above 0 and every stored
\* screen-time row has minutes of 0 or more.
C28_StoredValuesInRange ==
    /\ \A row \in DOMAIN water_logs : row.amount_ml > 0
    /\ \A i \in DOMAIN screen_time_logs : screen_time_logs[i].minutes >= 0

\* C30: the sleep minutes the day summary of a user and a local date reports
\* are the duration of the most recently created completed interval (both
\* ends logged) of that user with that date, and are absent when there is
\* none; open intervals and wake-only records add nothing; and reading the
\* summary changes no table, settings row, registry entry or trigger.
C30_SummarySleepMinutes ==
    [][answer'.query = "get_day_summary"
       => LET done == {id \in BothEnds :
                          /\ sleep_logs[id].user_id = answer'.user_id
                          /\ sleep_logs[id].date = answer'.date}
              last == CHOOSE id \in done : \A other \in done : other <= id
          IN  /\ answer'.value =
                    (IF done = {} THEN None ELSE sleep_logs[last].duration_minutes)
              /\ done # {} => answer'.value \in Nat
              /\ event_tables' = event_tables
              /\ users' = users
              /\ UNCHANGED <<bot_water, bot_summary, job_queue>>]_vars

\* user 1 completed two intervals with today's date, of 900 minutes and then
\* of 0 minutes, and looked at today's summary: it reports the 0 minutes of
\* the later one, not the 900 of the earlier and not "absent"
C30_Witness ==
    /\ answer.query = "get_day_summary"
    /\ Len(sleep_logs) = 3
    /\ {2, 3} \subseteq BothEnds
    /\ sleep_logs[2].user_id = 1 /\ sleep_logs[3].user_id = 1
    /\ sleep_logs[2].date = answer.date /\ sleep_logs[3].date = answer.date
    /\ sleep_logs[2].duration_minutes = 900
    /\ sleep_logs[3].duration_minutes = 0
    /\ answer.value = 0

\* user 1 has only a wake-only record with today's date and user 2 an open
\* interval: today's summary reports no sleep minutes
C30_WitnessAbsent ==
    /\ answer.query = "get_day_summary"
    /\ answer.value = None
    /\ \E id \in DOMAIN sleep_logs :
          /\ sleep_logs[id].user_id = 1
          /\ sleep_logs[id].date = answer.date
          /\ sleep_logs[id].sleep_start_utc = Null

\* C31: the settings row of a user is created by the first request that
\* gets through, with the defaults (target 4000, cup 250, wake and sleep
\* unset, zone UTC); a later get-or-create leaves the row as stored, so a row
\* changes only in a step that stores a setting of that user; and no step,
\* the confirmed reset included, removes a row.
C31_ProfileCreatedOnceNeverDeleted ==
    [][/\ \A u \in DOMAIN users' \ DOMAIN users :
              /\ u = result'.chat_id
              /\ users'[u] = [daily_water_target_ml |-> 4000, cup_size_ml |-> 250,
                              wake_time_minutes |-> None,
                              sleep_time_minutes |-> None, tz |-> UTC]
       /\ \A u \in DOMAIN users :
              /\ u \in DOMAIN users'
              /\ users'[u] # users[u] => (result'.stored /\ result'.chat_id = u)
       /\ \A u \in UserIds, do \in BOOLEAN :
              handle_callback_confirm_reset(u, do) => DOMAIN users \subseteq DOMAIN users'
      ]_vars

\* the user changed the water target and then pressed a button that stores
\* nothing (the confirmation of the reset is one): the get-or-create of that
\* request found the row, which holds the target as stored
C31_Witness ==
    /\ 1 \in DOMAIN users
    /\ users[1].daily_water_target_ml = 750
    /\ users[1].tz = UTC
    /\ result = Outcome(1, "ok", FALSE, FALSE)
    /\ 1 \notin DOMAIN awaiting
    /\ SummaryArmed(1) # {}

\* C32: a command, button or text of a user who is not the configured
\* allowed user, or of anyone when no allowed user is configured, is denied
\* and changes nothing: no event row, no settings row, no awaited input, no
\* registry entry and no armed trigger.
C32_UnauthorizedChangesNothing ==
    [][(allowed_user_id = None \/ result'.chat_id # allowed_user_id)
       => /\ result'.outcome = "denied"
          /\ UNCHANGED <<event_tables, users, awaiting, bot_water, bot_summary,
                         job_queue>>]_vars

\* user 1 is the allowed user, has triggers armed and has been asked for the
\* time zone; a request of user 2 has just been denied
C32_Witness ==
    /\ allowed_user_id = 1
    /\ result = Outcome(2, "denied", FALSE, FALSE)
    /\ 1 \in DOMAIN awaiting /\ awaiting[1] = "set_tz"
    /\ SummaryArmed(1) # {}
    /\ UserRows(event_tables, 2) # NoRows

\* no allowed user is configured and a request of user 1, who has rows in
\* the file, has been denied
C32_WitnessNone ==
    /\ allowed_user_id = None
    /\ result = Outcome(1, "denied", FALSE, FALSE)
    /\ UserRows(event_tables, 1) # NoRows

\* C33: the water streak always ends with a count: for every target the
\* settings handler can store and every set of water events, the scan back
\* through the days meets a day whose total is below the target and returns
\* the number of days counted.
C33_WaterStreakReturnsCount ==
    answer.query = "streaks" => answer.value.water \in Nat

\* the clock times, in minutes after midnight, of the user's water triggers
\* in the order of the registry
WaterClock(u) ==
    [i \in DOMAIN Registry(u) |-> ClockMinutes(job_queue[Registry(u)[i]].time)]

\* C34: with sleep after wake and no more reminders than minutes in the
\* window (cup size positive), interval * reminderCount <= window, every
\* water trigger has a clock time in (wake, sleep], none wraps past midnight,
\* and the triggers are strictly increasing in clock time.
C34_TriggersInsideWindow ==
    \A u \in DOMAIN users :
        (/\ Reconciled(u) /\ BothSet(users[u]) /\ users[u].cup_size_ml > 0
         /\ users[u].sleep_time_minutes > users[u].wake_time_minutes
         /\ ReminderCount(users[u])
               <= users[u].sleep_time_minutes - users[u].wake_time_minutes)
        => LET row == users[u]
               at == WaterClock(u)
           IN  /\ Len(at) = ReminderCount(row)
               /\ Interval(row) * ReminderCount(row) <= ActiveWindow(row)
               /\ \A i \in DOMAIN at :
                     /\ at[i] > row.wake_time_minutes
                     /\ at[i] <= row.sleep_time_minutes
                     /\ at[i] = row.wake_time_minutes + i * Interval(row)
               /\ \A i, j \in DOMAIN at : i < j => at[i] < at[j]

\* wake 07:00, sleep 07:10, eight reminders: interval 1, the triggers are
\* 07:01 to 07:08
C34_Witness ==
    /\ Reconciled(1)
    /\ users[1].wake_time_minutes = 420 /\ users[1].sleep_time_minutes = 430
    /\ users[1].daily_water_target_ml = 2000 /\ users[1].cup_size_ml = 250
    /\ WaterClock(1) = <<421, 422, 423, 424, 425, 426, 427, 428>>

\* no two water triggers of user u fire at the same minute of the day
DistinctMinutes(u) ==
    LET at == WaterClock(u)
    IN  \A i, j \in DOMAIN at : i # j => at[i] # at[j]

\* C35 as stated: for every settings tuple the water triggers one
\* reconciliation arms for a user have pairwise distinct clock times.
C35_Original ==
    \A u \in DOMAIN users : Reconciled(u) => DistinctMinutes(u)

\* C35, amended: the water triggers one reconciliation arms for a user have
\* pairwise distinct clock times exactly when there are at most 1440 of
\* them; from 1441 reminders on the interval is 1 minute and trigger i + 1440
\* fires at the minute of trigger i.
C35_DistinctUpToOneDay ==
    \A u \in DOMAIN users :
        (Reconciled(u) /\ BothSet(users[u]) /\ users[u].cup_size_ml > 0)
        => /\ Len(Registry(u)) = ReminderCount(users[u])
           /\ DistinctMinutes(u) <=> ReminderCount(users[u]) <= MinutesPerDay
           /\ LET at == WaterClock(u)
              IN  \A i \in DOMAIN at :
                     i > MinutesPerDay => at[i] = at[i - MinutesPerDay]

\* target 1441 ml with a cup of 1 ml, wake 07:00, sleep 07:10: 1441 triggers
\* one minute apart, the last at 07:01 as the first
C35_Witness ==
    /\ Reconciled(1)
    /\ users[1].wake_time_minutes = 420 /\ users[1].sleep_time_minutes = 430
    /\ Len(Registry(1)) = 1441
    /\ WaterClock(1)[1] = 421
    /\ WaterClock(1)[1441] = 421

\* the rows of sleep_logs that hold a wake time
Woken == {id \in DOMAIN sleep_logs : sleep_logs[id].wake_utc # Null}

\* the step is the confirmed reset of user u
Purged(u) == IsAuthorized(u) /\ handle_callback_confirm_reset(u, TRUE)

\* C37: a row of sleep_logs with its wake time set is never written again:
\* every later sleep start or wake, and every other request, leaves its
\* start, wake time, duration and date as they are; only the confirmed reset
\* of its user removes it, and that reset leaves the rows of others.
C37_CompletedNeverModified ==
    [][IF \E u \in UserIds : Purged(u)
       THEN \A u \in UserIds :
               Purged(u) => DeleteFrom(sleep_logs', u) = DeleteFrom(sleep_logs, u)
       ELSE \A id \in Woken :
               /\ id \in DOMAIN sleep_logs'
               /\ sleep_logs'[id] = sleep_logs[id]]_vars

\* user 1 completed an interval and then logged a sleep start and a wake:
\* the first interval is as it was completed, the second is completed too
C37_Witness ==
    /\ allowed_user_id = 1
    /\ answer.query = "log_wake"
    /\ Len(sleep_logs) = 3
    /\ {1, 3} \subseteq Woken
    /\ sleep_logs[1].user_id = 1 /\ sleep_logs[3].user_id = 1
    /\ sleep_logs[1].date # sleep_logs[3].date
    /\ sleep_logs[2].user_id = 2 /\ sleep_logs[2].wake_utc = Null

\* the wake events whose log_wake has written
Written == {i \in DOMAIN tasks : tasks[i].pc = "done"}

C36_WitnessNone ==
    /\ Written = {1, 2}
    /\ tasks[1].sleep_id = 0 /\ tasks[2].sleep_id = 0
    /\ Len(sleep_logs) = 3
    /\ sleep_logs[2].sleep_start_utc = Null
    /\ sleep_logs[3].sleep_start_utc = Null

\* the awaited inputs handle_text parses before it stores anything
ParsedKinds == {"set_water_target", "set_cup_size", "set_wake", "set_sleep"}

\* what handle_text(user_id, text) is held to by C38
ConsumedOnce(user_id, text) ==
    /\ (IsAuthorized(user_id) /\ user_id \in DOMAIN awaiting)
       => user_id \notin DOMAIN awaiting'
    /\ (/\ IsAuthorized(user_id)
        /\ user_id \in DOMAIN awaiting
        /\ awaiting[user_id] \in ParsedKinds
        /\ Parsed(awaiting[user_id], text).as # "value")
       => UNCHANGED <<event_tables, users, bot_water, bot_summary, job_queue>>
    /\ user_id \notin DOMAIN awaiting
       => UNCHANGED <<event_tables, users, awaiting, bot_water, bot_summary,
                      job_queue>>

\* C38: the pending input is consumed exactly once: when handle_text has
\* ended on a text sent while an input was awaited, nothing is awaited any
\* more, whether the text was stored, was refused or the handler ended in an
\* error; a text that does not parse leaves the event tables, the users row
\* and the armed jobs as they were; a text sent while nothing is awaited
\* changes none of them.
C38_PendingInputConsumedOnce ==
    [][\A user_id \in UserIds, fault \in Faults :
         \A text \in TimeTexts \cup IntTexts \cup TzTexts :
            handle_text(user_id, text, fault, {}, {})
            => ConsumedOnce(user_id, text)]_vars

\* the step removes an event row of user u
RowsLost(u) ==
    LET before == UserRows(event_tables, u)
        after == UserRows(event_tables, u)'
    IN  \/ \E row \in DOMAIN before[1] :
              row \notin DOMAIN after[1] \/ after[1][row] < before[1][row]
        \/ \E t \in {2, 3} : Cardinality(after[t]) < Cardinality(before[t])
        \/ \E t \in {4, 5, 6} : Len(after[t]) < Len(before[t])

\* C39: logs are purged only after an explicit confirmation: a step that
\* removes event rows of a user is that user's confirm_reset:yes, taken while
\* the reset prompt is the input awaited from the user; confirm_reset:no
\* leaves every event row as it was; and the purge leaves the registries and
\* the armed jobs as they were.
C39_PurgeOnlyAfterConfirmation ==
    [][\A u \in UserIds :
          /\ RowsLost(u)
             => /\ Purged(u)
                /\ u \in DOMAIN awaiting
                /\ awaiting[u] = "confirm_reset"
          /\ handle_callback_confirm_reset(u, FALSE) => UNCHANGED event_tables
          /\ Purged(u) => UNCHANGED <<bot_water, bot_summary, job_queue>>]_vars

\* the days of January a WaterEvent of the model can fall on, in either zone
WaterDays == 1..5

\* the day of January that instant ts_utc lies on at the offset `off`
LocalDay(ts_utc, off) ==
    (fromisoformat(ts_utc) + off * TicksPerMinute) \div TicksPerDay + 1

\* water_logs with the events stored as `row` and no other
Only(row) == Put(EmptyMap, row, water_logs[row])

\* the totals of get_water_total_for_date over the days, added up
TotalOverDays(u, off) ==
    LET sum[day \in 0..5] ==
            IF day = 0 THEN 0
            ELSE sum[day - 1]
                   + get_water_total_for_date(water_logs, u,
                                              date_isoformat(day), off)
    IN  sum[5]

\* C40: at a fixed offset the local days partition the water log: every
\* WaterEvent of a user is counted by get_water_total_for_date for the local
\* date its instant lies on and for no other date, an event at local
\* midnight for the day that starts, and the totals of the days add up to
\* the total of all the events of the user.
C40_LocalDaysPartition ==
    \A u \in {1, 2}, off \in {utcoffset(UTC), utcoffset(Tokyo)} :
        /\ \A row \in DOMAIN water_logs :
              row.user_id = u
              => /\ LocalDay(row.ts_utc, off) \in WaterDays
                 /\ \A day \in WaterDays :
                       get_water_total_for_date(Only(row), u,
                                                date_isoformat(day), off)
                         = IF day = LocalDay(row.ts_utc, off)
                           THEN water_logs[row] * row.amount_ml
                           ELSE 0
        /\ TotalOverDays(u, off)
              = AmountOf({row \in DOMAIN water_logs : row.user_id = u})

\* user 1 has logged 250 half a second before midnight UTC of January 3 and
\* 250 at that midnight: in UTC the first is counted for January 2 and the
\* second for January 3, in Tokyo both for January 3
C40_Witness ==
    /\ answer.query = "add_water"
    /\ \A ts \in {At(2, 23, 59, 59, 1), At(3, 0, 0, 0, 0)} :
          \E row \in DOMAIN water_logs :
             row.user_id = 1 /\ row.ts_utc = isoformat(ts) /\ row.amount_ml = 250
    /\ get_water_total_for_date(water_logs, 1, date_isoformat(2), utcoffset(UTC)) = 250
    /\ get_water_total_for_date(water_logs, 1, date_isoformat(3), utcoffset(UTC)) = 250
    /\ get_water_total_for_date(water_logs, 1, date_isoformat(2), utcoffset(Tokyo)) = 0
    /\ get_water_total_for_date(water_logs, 1, date_isoformat(3), utcoffset(Tokyo)) = 500

\* user 1 has logged 250 at 15:00 UTC of January 3, which is midnight of
\* January 4 in Tokyo: there it is counted for January 4 and not for
\* January 3
C40_WitnessTokyo ==
    /\ answer.query = "add_water"
    /\ \E row \in DOMAIN water_logs :
          row.user_id = 1 /\ row.ts_utc = isoformat(At(3, 15, 0, 0, 0))
            /\ row.amount_ml = 250
    /\ get_water_total_for_date(water_logs, 1, date_isoformat(3), utcoffset(Tokyo)) = 0
    /\ get_water_total_for_date(water_logs, 1, date_isoformat(4), utcoffset(Tokyo)) = 250

====
